---- MODULE Spec2Model ----
(***************************************************************************)
(* A model of the snapblaster MIDI engine (src/src/midi/engine.rs) and of  *)
(* the callers that share it behind Arc<Mutex<MidiEngine>>                 *)
(* (src/src/project/manager.rs, src/src-tauri/src/app.rs).                 *)
(*                                                                         *)
(* Spec     : the engine with its loop thread, the producers that call     *)
(*            send_command and the owner that calls start, shutdown and    *)
(*            add_output.                                                  *)
(* FairSpec : Spec with the fairness the scheduler gives the threads.      *)
(* CCSpec   : the output side alone: add_output and send_cc applied to     *)
(*            every 8-bit channel and to sample controller/value bytes.    *)
(* SchedSpec: the engine fed with Transition, ActivateScene, MorphScenes   *)
(*            and StopTransitions commands.                                *)
(* ManagerSpec: ProjectManager::import_project and activate_scene, for     *)
(*            every trigger mode (src/src/project/manager.rs).             *)
(* ValueSpec: CCValue's builders and duration (src/src/models/cc.rs), the  *)
(*            CC editor's apply_changes and TransitionCurve::apply.        *)
(* LinkSpec : LinkIntegration's tempo, phase and beat position calls       *)
(*            (src/src/link/integration.rs).                               *)
(* LinkLoopSpec: LinkIntegration::start and stop with the timing thread.   *)
(* SceneSpec: Scene::add_cc, add_cc_values, get_cc and remove_cc           *)
(*            (src/src-tauri/src/models/scene.rs).                         *)
(* ProjectSpec: Project::add_scene, assign_to_grid and remove_scene        *)
(*            (src/src-tauri/src/models/project.rs).                       *)
(* ControllerSpec: a LaunchpadMk2 and the messages its input handler gets  *)
(*            (src/src-tauri/src/midi/controller.rs).                      *)
(* PadSpec  : ProjectManager::connect_controller and the pad presses that  *)
(*            arrive afterwards.                                           *)
(* BatchSpec: the engine loop started on a queue that already holds more   *)
(*            than one batch of commands.                                  *)
(* MapSpec  : LaunchpadMk2::map_grid_id and map_to_app_grid_id on every    *)
(*            8-bit id.                                                    *)
(* LightSpec: ProjectSpec with the body of update_controller_grid applied  *)
(*            to the project.                                              *)
(* GridSpec : every ProjectManager command that replaces, reads or edits   *)
(*            the active project, and the save_generated_scene command.    *)
(* SyncSpec : the mutexes of ProjectManager and MidiEngine, taken and      *)
(*            released by the threads of the application step by step.     *)
(***************************************************************************)
EXTENDS Integers, Sequences, FiniteSets, TLC

\* ------------------------------------------------------------------ bounds
\* Number of send_command calls the producers make in one behaviour.
MaxSends == 3
\* Number of engine threads start() may spawn in one behaviour.
MaxSpawns == 2
\* Number of output connections add_output may open in one behaviour.
MaxConns == 2
\* The number of messages the controller hardware sends.
MaxMessages == 3
\* The beat position up to which a Link timing thread is followed.
MaxBeat == 5

\* ------------------------------------------------- constants of the program
\* The loop handles at most this many commands per iteration (for _ in 0..10).
BatchSize == 10
\* Commands and MIDI bytes are u8.
U8Max == 255
\* The Control-Change status nibble 0xB0 and the channel mask 0x0F.
StatusCC == 176
ChannelMask == 15

\* The threads that submit commands: the UI command handler
\* (ProjectManager::send_cc) and the Link beat callback (app.rs).
Producers == {"ui", "link"}
\* The thread that owns the engine's life cycle (app::init, the close handler).
Owner == "owner"
\* The names of the engine loop threads, in spawn order.
Threads == 1..MaxSpawns
\* Output port names a caller may ask for; "gone" is never among the ports.
PortNames == {"synth", "fx"}
DeviceNames == PortNames \cup {"gone"}
\* The devices the owner asks add_output for while the engine runs.
EngineDevices == {"synth", "gone"}
\* (channel, cc_number, value) triples the producers submit.
SampleCCs == {<<0, 7, 100>>}
\* The (cc, value) bytes given to send_cc directly, in and out of 0..127.
SampleCCValues == {<<7, 127>>, <<128, 0>>, <<64, U8Max>>}
U8 == 0..U8Max

NoCmd == [type |-> "None", channel |-> 0, cc_number |-> 0, value |-> 0,
          bpm |-> 0, src |-> "none", seq |-> 0]
NoRet == [op |-> "none", args |-> <<>>, result |-> "none"]
\* Option<T>: None is the empty sequence, Some(x) the sequence of x alone.
None == <<>>
Some(x) == <<x>>

VARIABLES
    command_queue,  \* MidiEngine.command_queue: the VecDeque behind the mutex
    queue_lock,     \* the command_queue mutex: "free", "producer" or "thread"
    running,        \* MidiEngine.running
    thread_handle,  \* MidiEngine.thread_handle: 0 is None, t is Some(thread t)
    connections,    \* MidiEngine.connections: the port each connection is open to
    midi_engine,    \* the callers' Mutex<MidiEngine>: "free", "owner" or a producer
    tpc,            \* position of each engine loop thread
    tbatch,         \* the loop's for-counter in each thread
    tcmd,           \* the command a thread has popped and is processing
    ppc,            \* position of each producer inside send_command
    pcmd,           \* the command a producer is submitting
    nsends,         \* send_command calls made so far
    opc,            \* position of the owner: "idle" or inside shutdown ("join")
    ret,            \* the last value returned to the owner (or by send_cc)
    wire,           \* the writes attempted on the connections by the last send_cc
    dequeued,       \* history: the seq of every popped command, in pop order
    cc_input,       \* the (channel, cc, value) that send_cc is called with
    transitions,    \* MidiEngine.transitions: the Vec of ActiveTransition
    cc_value,       \* the CCValue the model's builder and editor calls work on
    active_project, \* ProjectManager.active_project: None or Some(Project)
    active_scene_id,\* ProjectManager.active_scene_id: None or Some(scene id)
    import_file,    \* the file import_project reads: None or Some(Project)
    link,           \* the LinkIntegration object and the AblLink it owns
    timing,         \* the Link timing threads and the caller of start and stop
    controller,     \* ProjectManager.controller (or a GridController on its own)
    locks,          \* the active_project and controller mutexes of the manager
    a_scene,        \* the Scene that add_cc, add_cc_values and remove_cc work on
    a_project,      \* the Project that add_scene and assign_to_grid work on
    sync            \* who holds which mutex, and the order they were taken in

vars == <<command_queue, queue_lock, running, thread_handle, connections,
          midi_engine, tpc, tbatch, tcmd, ppc, pcmd, nsends, opc, ret, wire,
          dequeued, cc_input, transitions, cc_value, active_project,
          active_scene_id, import_file, link, timing, controller, locks,
          a_scene, a_project, sync>>

engineVars == <<command_queue, queue_lock, running, thread_handle, connections,
                tpc, tbatch, tcmd>>
threadVars == <<tpc, tbatch, tcmd>>
producerVars == <<ppc, pcmd, nsends>>
managerVars == <<active_project, active_scene_id, import_file>>

\* ------------------------------------------------------------ bit arithmetic
RECURSIVE BitAnd(_, _)
BitAnd(a, b) ==
    IF a = 0 \/ b = 0 THEN 0
    ELSE (IF a % 2 = 1 /\ b % 2 = 1 THEN 1 ELSE 0) + 2 * BitAnd(a \div 2, b \div 2)

RECURSIVE BitOr(_, _)
BitOr(a, b) ==
    IF a = 0 THEN b
    ELSE IF b = 0 THEN a
    ELSE (IF a % 2 = 1 \/ b % 2 = 1 THEN 1 ELSE 0) + 2 * BitOr(a \div 2, b \div 2)

\* --------------------------------------------------------------- MidiEngine
\* MidiEngine::new
InitEngine ==
    /\ command_queue = <<>>
    /\ queue_lock = "free"
    /\ running = TRUE
    /\ thread_handle = 0
    /\ connections = <<>>
    /\ midi_engine = "free"
    /\ tpc = [t \in Threads |-> "none"]
    /\ tbatch = [t \in Threads |-> 0]
    /\ tcmd = [t \in Threads |-> NoCmd]
    /\ ppc = [p \in Producers |-> "idle"]
    /\ pcmd = [p \in Producers |-> NoCmd]
    /\ nsends = 0
    /\ opc = "idle"
    /\ ret = NoRet
    /\ wire = <<>>
    /\ dequeued = <<>>
    /\ transitions = <<>>

\* CCValue::new(0, 7, 100)
NewCCValue ==
    [channel |-> 0, cc_number |-> 7, value |-> 100, transition |-> FALSE,
     transition_beats |-> None, transition_ms |-> None, curve |-> "Linear"]

\* ProjectManager::new, and a CCValue fresh from CCValue::new.
InitManager ==
    /\ active_project = None
    /\ active_scene_id = None
    /\ import_file = None
    /\ cc_value = NewCCValue

\* The tempo the application creates its LinkIntegration with.
default_tempo == 120

\* LinkIntegration::new(initial_tempo). link.link is the AblLink it owns: its
\* enabled flag, its number of peers, the session's tempo and the session's
\* beat position now. Beat positions are held in quarter beats.
NewLink(initial_tempo) ==
    [link |-> [enabled |-> FALSE, num_peers |-> 0, tempo |-> initial_tempo,
               beat |-> 0],
     enabled |-> FALSE, tempo |-> initial_tempo, beat_position |-> 0,
     beat_callback |-> None, bar_callback |-> None, thread_handle |-> None]

\* A timing thread that was not spawned yet. link is the AblLink the thread
\* polls: its number of peers and its beat position (quarter beats).
NoTiming ==
    [pc |-> "none", last_beat |-> 0, last_bar |-> 0,
     link |-> [num_peers |-> 0, beat |-> 0]]

\* No timing thread yet; the owner of the LinkIntegration is outside start and
\* stop. fired is history: how often the last poll invoked the beat callback
\* and the bar callback.
InitLink ==
    /\ link = NewLink(default_tempo)
    /\ timing = [caller |-> "idle", threads |-> [t \in Threads |-> NoTiming],
                 fired |-> [beat |-> 0, bar |-> 0]]

\* Scene::new: no CC values, no grid position.
NewScene(id) == [id |-> id, cc_values |-> <<>>, grid_position |-> None]

\* Project::new: no scenes, no grid assignments.
NewProject == [scenes |-> <<>>, grid_assignments |-> <<>>]

\* ------------------------------------------------------------ lock order
\* The mutexes of ProjectManager and MidiEngine that more than one thread
\* can reach, and the threads that reach them: the UI commands (one at a
\* time, behind the project_manager mutex of AppState), the controller's
\* input thread that runs the pad callback, the Link timing thread that runs
\* the beat callback, the window-close handler and the engine loop.
Mutexes == {"active_project", "midi_engine", "active_scene_id", "controller",
            "command_queue", "running"}
SyncThreads == {"ui", "pad", "link", "close", "loop"}

\* What a call does to the mutexes, in program order: a guard is taken where
\* lock() is called and released where it goes out of scope.
L(m) == <<"lock", m>>
TryL(m) == <<"try_lock", m>>
U(m) == <<"unlock", m>>

\* MidiEngine::send_command
send_command_locks == <<L("command_queue"), U("command_queue")>>

\* ProjectManager::activate_scene on a scene of the active project.
activate_scene_locks ==
    <<L("active_project"), L("midi_engine")>> \o send_command_locks
    \o <<L("active_scene_id"), U("active_scene_id"), U("midi_engine"),
         U("active_project")>>

\* ProjectManager::get_active_scene
get_active_scene_locks ==
    <<L("active_project"), L("active_scene_id"), U("active_scene_id"),
      U("active_project")>>

\* ProjectManager::update_controller_grid
update_controller_grid_locks ==
    <<L("active_project"), L("controller"), U("controller"), U("active_project")>>

\* ProjectManager::load_project of a project that storage holds.
load_project_locks ==
    <<L("active_project"), L("active_scene_id")>> \o update_controller_grid_locks
    \o <<U("active_scene_id"), U("active_project")>>

\* ProjectManager::assign_scene_to_grid of a scene the project has.
assign_scene_to_grid_locks ==
    <<L("active_project")>> \o update_controller_grid_locks
    \o <<U("active_project")>>

\* ProjectManager::connect_controller of a controller that connects: the
\* callback is registered before the controller is stored.
connect_controller_locks ==
    <<<<"set_event_callback", "">>, L("controller")>>
    \o update_controller_grid_locks \o <<U("controller")>>

\* ProjectManager::close_active_project
close_active_project_locks ==
    <<L("active_project"), L("active_scene_id"), TryL("controller"),
      U("controller"), U("active_scene_id"), U("active_project")>>

\* ProjectManager::disconnect_controller
disconnect_controller_locks == <<L("controller"), U("controller")>>

\* ProjectManager::send_cc
send_cc_locks ==
    <<L("midi_engine")>> \o send_command_locks \o <<U("midi_engine")>>

\* create_project, create_from_template, get_active_project,
\* save_active_project, create_scene, import_project and
\* export_active_project take active_project alone, as does every early
\* return of the calls above.
create_project_locks == <<L("active_project"), U("active_project")>>

\* The closure connect_controller registers, for a pad with a scene: the
\* active_project guard is dropped before activate_scene is called.
pad_pressed_locks ==
    <<L("active_project"), U("active_project")>> \o activate_scene_locks

\* The beat callback app.rs registers with the Link integration.
beat_callback_locks ==
    <<TryL("midi_engine")>> \o send_command_locks \o <<U("midi_engine")>>

\* The close handler of app.rs: MidiEngine::shutdown under the engine mutex.
\* shutdown clears the running flag and joins the loop thread.
shutdown_locks ==
    <<TryL("midi_engine"), L("running"), <<"stop", "">>, U("running"),
      <<"join", "">>, U("midi_engine")>>

\* The loop of the engine thread: the guard of the while condition is a
\* temporary, the queue guard is dropped before the sleep.
engine_loop_locks ==
    <<L("running"), <<"while", "">>, U("running"), L("command_queue"),
      U("command_queue"), <<"again", "">>>>

\* ProjectManager::init has started the engine: the loop runs, no mutex is
\* held. order is history: the pairs <<held, taken>> of every lock() that
\* returned while its thread held another mutex.
NewSync ==
    [pc |-> [t \in SyncThreads |-> IF t = "loop" THEN engine_loop_locks ELSE <<>>],
     held |-> [t \in SyncThreads |-> {}],
     order |-> {}, poisoned |-> {}, dead |-> {},
     running |-> TRUE, exited |-> FALSE, callback |-> FALSE]

\* ProjectManager::new leaves the controller slot empty and both mutexes
\* free. received counts the messages the hardware sent, last is the last of
\* them with the event the input handler made of it and the callback called.
InitModels ==
    /\ controller = [dev |-> None, received |-> 0,
                     last |-> [message |-> <<>>, event |-> None, called |-> None]]
    /\ locks = [active_project |-> "free", controller |-> "free"]
    /\ a_scene = NewScene("test-scene")
    /\ a_project = NewProject
    /\ sync = NewSync

Init ==
    InitEngine /\ InitManager /\ InitLink /\ InitModels /\ cc_input = <<0, 0, 0>>

\* Threads that were spawned and have not left the loop.
LiveThreads == {t \in Threads : tpc[t] \notin {"none", "exited"}}
Spawned == {t \in Threads : tpc[t] # "none"}

\* A faulty start() without the thread_handle test: it spawns and overwrites
\* the handle every time. C5 must not survive it.
StartNoGuard ==
    /\ opc = "idle"
    /\ midi_engine = "free"
    /\ Cardinality(Spawned) < MaxSpawns
    /\ LET t == Cardinality(Spawned) + 1 IN
         /\ tpc' = [tpc EXCEPT ![t] = "while"]
         /\ thread_handle' = t
    /\ ret' = [op |-> "start", args |-> <<>>, result |-> "Ok"]
    /\ UNCHANGED <<command_queue, queue_lock, running, connections, midi_engine,
                   tbatch, tcmd, producerVars, opc, wire, dequeued, cc_input,
                   transitions, cc_value, managerVars, link, timing, controller, locks,
                   a_scene, a_project, sync>>

\* MidiEngine::start, called with the engine mutex held (app.rs:31).
Start ==
    /\ opc = "idle"
    /\ midi_engine = "free"
    /\ IF thread_handle # 0
       THEN /\ ret' = [op |-> "start", args |-> <<>>, result |-> "Engine already running"]
            /\ UNCHANGED <<thread_handle, tpc>>
       ELSE /\ Cardinality(Spawned) < MaxSpawns
            /\ LET t == Cardinality(Spawned) + 1 IN
                 /\ tpc' = [tpc EXCEPT ![t] = "while"]
                 /\ thread_handle' = t
            /\ ret' = [op |-> "start", args |-> <<>>, result |-> "Ok"]
    /\ UNCHANGED <<command_queue, queue_lock, running, connections, midi_engine,
                   tbatch, tcmd, producerVars, opc, wire, dequeued, cc_input,
                   transitions, cc_value, managerVars, link, timing, controller, locks,
                   a_scene, a_project, sync>>

\* A faulty loop test that never sees the flag go false. C6 must not survive it.
ThreadWhileIgnoringFlag(t) ==
    /\ tpc[t] = "while"
    /\ tpc' = [tpc EXCEPT ![t] = "lock"]
    /\ UNCHANGED <<command_queue, queue_lock, running, thread_handle, connections,
                   midi_engine, tbatch, tcmd, producerVars, opc, ret, wire,
                   dequeued, cc_input,
                   transitions, cc_value, managerVars, link, timing, controller, locks,
                   a_scene, a_project, sync>>

\* The loop's test `while *running.lock().unwrap()`.
ThreadWhile(t) ==
    /\ tpc[t] = "while"
    /\ tpc' = [tpc EXCEPT ![t] = IF running THEN "lock" ELSE "exited"]
    /\ UNCHANGED <<command_queue, queue_lock, running, thread_handle, connections,
                   midi_engine, tbatch, tcmd, producerVars, opc, ret, wire,
                   dequeued, cc_input,
                   transitions, cc_value, managerVars, link, timing, controller, locks,
                   a_scene, a_project, sync>>

\* `let mut commands = command_queue.lock().unwrap();` and the start of the for.
ThreadLock(t) ==
    /\ tpc[t] = "lock"
    /\ queue_lock = "free"
    /\ queue_lock' = "thread"
    /\ tbatch' = [tbatch EXCEPT ![t] = 0]
    /\ tpc' = [tpc EXCEPT ![t] = "pop"]
    /\ UNCHANGED <<command_queue, running, thread_handle, connections, midi_engine,
                   tcmd, producerVars, opc, ret, wire, dequeued, cc_input,
                   transitions, cc_value, managerVars, link, timing, controller, locks,
                   a_scene, a_project, sync>>

\* A faulty pop that takes the newest command. C2 must not survive it.
pop_back(q) == [cmd |-> q[Len(q)], rest |-> SubSeq(q, 1, Len(q) - 1)]

\* A faulty pop that leaves the command in the queue. C31 must not survive it.
pop_front_keeping(q) == [cmd |-> Head(q), rest |-> q]

\* VecDeque::pop_front on a non-empty queue.
pop_front(q) == [cmd |-> Head(q), rest |-> Tail(q)]

\* A faulty for body without `drop(commands)` before the processing: the
\* lock stays held while the command is processed. C3 must not survive it.
ThreadPopKeepingLock(t) ==
    /\ tpc[t] = "pop"
    /\ IF tbatch[t] < BatchSize /\ command_queue # <<>>
       THEN /\ queue_lock' = queue_lock
            /\ command_queue' = pop_front(command_queue).rest
            /\ tcmd' = [tcmd EXCEPT ![t] = pop_front(command_queue).cmd]
            /\ dequeued' = Append(dequeued, pop_front(command_queue).cmd.seq)
            /\ tpc' = [tpc EXCEPT ![t] = "process"]
       ELSE /\ queue_lock' = "free"
            /\ tpc' = [tpc EXCEPT ![t] = "sleep"]
            /\ UNCHANGED <<command_queue, tcmd, dequeued>>
    /\ UNCHANGED <<running, thread_handle, connections, midi_engine, tbatch,
                   producerVars, opc, ret, wire, cc_input,
                   transitions, cc_value, managerVars, link, timing, controller, locks,
                   a_scene, a_project, sync>>

\* A faulty for that runs 11 passes. C28 must not survive it.
ThreadPopElevenPasses(t) ==
    /\ tpc[t] = "pop"
    /\ queue_lock' = "free"
    /\ IF tbatch[t] <= BatchSize /\ command_queue # <<>>
       THEN /\ command_queue' = pop_front(command_queue).rest
            /\ tcmd' = [tcmd EXCEPT ![t] = pop_front(command_queue).cmd]
            /\ dequeued' = Append(dequeued, pop_front(command_queue).cmd.seq)
            /\ tpc' = [tpc EXCEPT ![t] = "process"]
       ELSE /\ tpc' = [tpc EXCEPT ![t] = "sleep"]
            /\ UNCHANGED <<command_queue, tcmd, dequeued>>
    /\ UNCHANGED <<running, thread_handle, connections, midi_engine, tbatch,
                   producerVars, opc, ret, wire, cc_input, transitions,
                   cc_value, managerVars, link, timing, controller, locks,
                   a_scene, a_project, sync>>

\* One pass of the for body with the lock held: pop and drop the lock to
\* process, or (queue empty, or 10 passes done) drop the lock and go to sleep.
ThreadPop(t) ==
    /\ tpc[t] = "pop"
    /\ queue_lock' = "free"
    /\ IF tbatch[t] < BatchSize /\ command_queue # <<>>
       THEN /\ command_queue' = pop_front(command_queue).rest
            /\ tcmd' = [tcmd EXCEPT ![t] = pop_front(command_queue).cmd]
            /\ dequeued' = Append(dequeued, pop_front(command_queue).cmd.seq)
            /\ tpc' = [tpc EXCEPT ![t] = "process"]
       ELSE /\ tpc' = [tpc EXCEPT ![t] = "sleep"]
            /\ UNCHANGED <<command_queue, tcmd, dequeued>>
    /\ UNCHANGED <<running, thread_handle, connections, midi_engine, tbatch,
                   producerVars, opc, ret, wire, cc_input,
                   transitions, cc_value, managerVars, link, timing, controller, locks,
                   a_scene, a_project, sync>>

\* The processing of a popped command. In the source this is a placeholder
\* comment: nothing is sent, no transition is started, the command is dropped.
ThreadProcess(t) ==
    /\ tpc[t] = "process"
    /\ tcmd' = [tcmd EXCEPT ![t] = NoCmd]
    /\ tpc' = [tpc EXCEPT ![t] = "relock"]
    /\ UNCHANGED <<command_queue, queue_lock, running, thread_handle, connections,
                   midi_engine, tbatch, producerVars, opc, ret, wire, dequeued, cc_input,
                   transitions, cc_value, managerVars, link, timing, controller, locks,
                   a_scene, a_project, sync>>

\* `commands = command_queue.lock().unwrap();` at the end of the for body.
ThreadRelock(t) ==
    /\ tpc[t] = "relock"
    /\ queue_lock = "free"
    /\ queue_lock' = "thread"
    /\ tbatch' = [tbatch EXCEPT ![t] = tbatch[t] + 1]
    /\ tpc' = [tpc EXCEPT ![t] = "pop"]
    /\ UNCHANGED <<command_queue, running, thread_handle, connections, midi_engine,
                   tcmd, producerVars, opc, ret, wire, dequeued, cc_input,
                   transitions, cc_value, managerVars, link, timing, controller, locks,
                   a_scene, a_project, sync>>

\* thread::sleep(Duration::from_millis(1))
ThreadSleep(t) ==
    /\ tpc[t] = "sleep"
    /\ tpc' = [tpc EXCEPT ![t] = "while"]
    /\ UNCHANGED <<command_queue, queue_lock, running, thread_handle, connections,
                   midi_engine, tbatch, tcmd, producerVars, opc, ret, wire,
                   dequeued, cc_input,
                   transitions, cc_value, managerVars, link, timing, controller, locks,
                   a_scene, a_project, sync>>

\* MidiEngine::shutdown, first half: the caller takes the engine mutex
\* (app.rs:77) and the running flag is set to false.
ShutdownBegin ==
    /\ opc = "idle"
    /\ midi_engine = "free"
    /\ midi_engine' = Owner
    /\ running' = FALSE
    /\ opc' = "join"
    /\ UNCHANGED <<command_queue, queue_lock, thread_handle, connections,
                   threadVars, producerVars, ret, wire, dequeued, cc_input,
                   transitions, cc_value, managerVars, link, timing, controller, locks,
                   a_scene, a_project, sync>>

\* MidiEngine::shutdown, second half: thread_handle.take(), join() when there
\* was a handle, return Ok; the caller then drops the engine mutex. Nobody can
\* read thread_handle between the take and the end of the join (the engine
\* mutex is held), so the handle is cleared in the step that ends the join.
ShutdownJoin ==
    /\ opc = "join"
    /\ thread_handle # 0 => tpc[thread_handle] = "exited"
    /\ thread_handle' = 0
    /\ midi_engine' = "free"
    /\ opc' = "idle"
    /\ ret' = [op |-> "shutdown", args |-> <<>>, result |-> "Ok"]
    /\ UNCHANGED <<command_queue, queue_lock, running, connections, threadVars,
                   producerVars, wire, dequeued, cc_input,
                   transitions, cc_value, managerVars, link, timing, controller, locks,
                   a_scene, a_project, sync>>

\* The commands each producer submits: ProjectManager::send_cc builds a SendCC,
\* the Link beat callback a SetTempo(default_tempo). seq is history: the
\* command's place in the order of the send_command calls, which the engine
\* mutex makes the order of the pushes.
CommandsOf(p) ==
    IF p = "link"
    THEN {[type |-> "SetTempo", channel |-> 0, cc_number |-> 0, value |-> 0,
           bpm |-> 120, src |-> p, seq |-> nsends + 1]}
    ELSE {[type |-> "SendCC", channel |-> c[1], cc_number |-> c[2], value |-> c[3],
           bpm |-> 0, src |-> p, seq |-> nsends + 1] : c \in SampleCCs}

\* A producer locks the engine mutex and calls send_command.
ProducerCall(p) ==
    /\ ppc[p] \in {"idle", "Ok"}
    /\ midi_engine = "free"
    /\ nsends < MaxSends
    /\ \E c \in CommandsOf(p) : pcmd' = [pcmd EXCEPT ![p] = c]
    /\ midi_engine' = p
    /\ nsends' = nsends + 1
    /\ ppc' = [ppc EXCEPT ![p] = "lock"]
    /\ UNCHANGED <<command_queue, queue_lock, running, thread_handle, connections,
                   threadVars, opc, ret, wire, dequeued, cc_input,
                   transitions, cc_value, managerVars, link, timing, controller, locks,
                   a_scene, a_project, sync>>

\* send_command: `self.command_queue.lock().unwrap()`
ProducerLock(p) ==
    /\ ppc[p] = "lock"
    /\ queue_lock = "free"
    /\ queue_lock' = "producer"
    /\ ppc' = [ppc EXCEPT ![p] = "push"]
    /\ UNCHANGED <<command_queue, running, thread_handle, connections, midi_engine,
                   threadVars, pcmd, nsends, opc, ret, wire, dequeued, cc_input,
                   transitions, cc_value, managerVars, link, timing, controller, locks,
                   a_scene, a_project, sync>>

\* A faulty send_command that refuses StopTransitions when no transition is
\* active. C15 must not survive it.
ProducerPushNothingToStop(p) ==
    /\ ppc[p] = "push"
    /\ IF pcmd[p].type = "StopTransitions" /\ transitions = <<>>
       THEN /\ ppc' = [ppc EXCEPT ![p] = "No active transitions to stop"]
            /\ UNCHANGED command_queue
       ELSE /\ ppc' = [ppc EXCEPT ![p] = "Ok"]
            /\ command_queue' = Append(command_queue, pcmd[p])
    /\ queue_lock' = "free"
    /\ midi_engine' = "free"
    /\ pcmd' = [pcmd EXCEPT ![p] = NoCmd]
    /\ UNCHANGED <<running, thread_handle, connections, threadVars, nsends, opc,
                   ret, wire, dequeued, cc_input,
                   transitions, cc_value, managerVars, link, timing, controller, locks,
                   a_scene, a_project, sync>>

\* send_command: push_back, the guard is dropped, Ok(()) is returned and the
\* caller drops the engine mutex.
ProducerPush(p) ==
    /\ ppc[p] = "push"
    /\ command_queue' = Append(command_queue, pcmd[p])
    /\ queue_lock' = "free"
    /\ midi_engine' = "free"
    /\ pcmd' = [pcmd EXCEPT ![p] = NoCmd]
    /\ ppc' = [ppc EXCEPT ![p] = "Ok"]
    /\ UNCHANGED <<running, thread_handle, connections, threadVars, nsends, opc,
                   ret, wire, dequeued, cc_input,
                   transitions, cc_value, managerVars, link, timing, controller, locks,
                   a_scene, a_project, sync>>

\* A faulty add_output that pushes before it knows the connect succeeded.
\* C10 must not survive it.
add_output_push_first(conns, device, created, ports, connect_ok) ==
    IF ~created
    THEN [connections |-> conns, result |-> "Failed to create MIDI output"]
    ELSE IF device \notin ports
    THEN [connections |-> conns, result |-> "Could not find MIDI device"]
    ELSE IF ~connect_ok
    THEN [connections |-> Append(conns, device),
          result |-> "Failed to connect to MIDI port"]
    ELSE [connections |-> Append(conns, device), result |-> "Ok"]

\* MidiEngine::add_output. created: MidiOutput::new succeeded; ports: the names
\* of the ports it lists; connect_ok: midi_out.connect succeeded.
add_output(conns, device, created, ports, connect_ok) ==
    IF ~created
    THEN [connections |-> conns, result |-> "Failed to create MIDI output"]
    ELSE IF device \notin ports
    THEN [connections |-> conns, result |-> "Could not find MIDI device"]
    ELSE IF ~connect_ok
    THEN [connections |-> conns, result |-> "Failed to connect to MIDI port"]
    ELSE [connections |-> Append(conns, device), result |-> "Ok"]

\* What add_output can meet: <<created, ports, connect_ok>>. Nothing is listed
\* or connected to when the MidiOutput could not be created.
OutputEnvs ==
    {<<FALSE, {}, FALSE>>} \cup ({TRUE} \X (SUBSET PortNames) \X BOOLEAN)

AddOutput(devices) ==
    /\ opc = "idle"
    /\ midi_engine = "free"
    /\ \E device \in devices, env \in OutputEnvs :
         LET r == add_output(connections, device, env[1], env[2], env[3]) IN
           /\ Len(r.connections) <= MaxConns
           /\ connections' = r.connections
           /\ ret' = [op |-> "add_output", args |-> <<>>, result |-> r.result]
    /\ UNCHANGED <<command_queue, queue_lock, running, thread_handle, midi_engine,
                   threadVars, producerVars, opc, wire, dequeued, cc_input,
                   transitions, cc_value, managerVars, link, timing, controller, locks,
                   a_scene, a_project, sync>>

\* A faulty status byte without the `& 0x0F`. C7 must not survive it.
status_byte_unmasked(channel) == (StatusCC + channel) % (U8Max + 1)

\* MidiEngine::send_cc: the status byte, computed in u8.
status_byte(channel) == (StatusCC + BitAnd(channel, ChannelMask)) % (U8Max + 1)

\* A faulty send_cc that gives up at the first failed write (a `?` in place of
\* `let _ =`). C8 must not survive it.
send_cc_stop_at_error(conns, channel, cc, value, failed) ==
    LET firstBad == IF failed \cap (1..Len(conns)) = {} THEN Len(conns)
                    ELSE CHOOSE i \in failed \cap (1..Len(conns)) :
                           \A j \in failed \cap (1..Len(conns)) : i <= j
    IN [i \in 1..firstBad |->
          [conn |-> i, port |-> conns[i],
           bytes |-> <<status_byte(channel), cc, value>>, ok |-> i \notin failed]]

\* MidiEngine::send_cc: the loop over the connections. failed: the connections
\* whose send returns Err; `let _ =` discards every result.
send_cc(conns, channel, cc, value, failed) ==
    [i \in 1..Len(conns) |->
       [conn |-> i, port |-> conns[i],
        bytes |-> <<status_byte(channel), cc, value>>, ok |-> i \notin failed]]

SendCc ==
    /\ \E failed \in SUBSET (1..Len(connections)) :
         wire' = send_cc(connections, cc_input[1], cc_input[2], cc_input[3], failed)
    /\ ret' = [op |-> "send_cc", args |-> cc_input, result |-> "()"]
    /\ UNCHANGED <<command_queue, queue_lock, running, thread_handle, connections,
                   midi_engine, threadVars, producerVars, opc, dequeued, cc_input,
                   transitions, cc_value, managerVars, link, timing, controller, locks,
                   a_scene, a_project, sync>>

\* ----------------------------------------------------------- specifications
Next ==
    \/ Start
    \/ ShutdownBegin
    \/ ShutdownJoin
    \/ AddOutput(EngineDevices)
    \/ \E p \in Producers : ProducerCall(p) \/ ProducerLock(p) \/ ProducerPush(p)
    \/ \E t \in Threads :
         \/ ThreadWhile(t)
         \/ ThreadLock(t)
         \/ ThreadPop(t)
         \/ ThreadProcess(t)
         \/ ThreadRelock(t)
         \/ ThreadSleep(t)

Spec == Init /\ [][Next]_vars

CCNext == AddOutput(DeviceNames) \/ SendCc

\* send_cc is private and the loop never calls it: here it is called directly,
\* on every 8-bit channel and on the sample controller and value bytes.
CCInit ==
    /\ InitEngine
    /\ InitManager
    /\ InitLink
    /\ InitModels
    /\ \E channel \in U8, b \in SampleCCValues : cc_input = <<channel, b[1], b[2]>>

CCSpec == CCInit /\ [][CCNext]_vars

\* The scheduler runs every thread that can take a step. A thread blocked on
\* the command_queue mutex gets it once it keeps becoming free: the loop
\* drops it before it processes a command and before every 1 ms sleep, a
\* producer drops it right after its push. Whether and when start, shutdown,
\* add_output and send_command are called is up to the callers.
Fairness ==
    /\ \A t \in Threads :
         /\ WF_vars(ThreadWhile(t) \/ ThreadPop(t) \/ ThreadProcess(t) \/ ThreadSleep(t))
         /\ SF_vars(ThreadLock(t) \/ ThreadRelock(t))
    /\ \A p \in Producers : SF_vars(ProducerLock(p)) /\ WF_vars(ProducerPush(p))
    /\ WF_vars(ShutdownJoin)

FairSpec == Spec /\ Fairness

\* ------------------------------------------------------------------ CCValue
\* Beat counts (f32 in the source) are held in quarter beats: 16 is 4.0 beats.
\* CCValue::with_transition_beats
with_transition_beats(cc, beats, curve) ==
    [cc EXCEPT !.transition = TRUE, !.transition_beats = Some(beats),
               !.transition_ms = None, !.curve = curve]

\* A faulty with_transition_ms that leaves transition_beats as it was.
\* C19 must not survive it.
with_transition_ms_keeping_beats(cc, ms, curve) ==
    [cc EXCEPT !.transition = TRUE, !.transition_ms = Some(ms), !.curve = curve]

\* CCValue::with_transition_ms
with_transition_ms(cc, ms, curve) ==
    [cc EXCEPT !.transition = TRUE, !.transition_ms = Some(ms),
               !.transition_beats = None, !.curve = curve]

\* CCValue::new(channel, cc_number, value)
CC(channel, cc_number, value) ==
    [NewCCValue EXCEPT !.channel = channel, !.cc_number = cc_number,
                       !.value = value]

\* TransitionCurve
Curves == {"Linear", "Exponential", "Logarithmic", "SCurve"}
\* Beat counts in quarter beats (0, 0.25, 4, 4.5 and 11 beats), millisecond
\* counts, tempos in BPM and values, as the callers supply them.
SampleBeats == {0, 1, 16, 18, 44}
SampleMs == {0, 1000}
SampleTempos == {60, 110, 120, 135}
SampleValues == {0, 100}

\* The (tempo, quarter beats) among the samples on which the f64 product
\* beats * ((60.0 / tempo) * 1000.0) falls just below the exact integer
\* beats * 60000 / tempo, because 60.0 / tempo is rounded down:
\*   60.0/110.0 = 0.5454545454545454, * 1000.0 = 545.4545454545454,
\*     * 11.0 = 5999.999999999999
\*   60.0/135.0 = 0.4444444444444444, * 1000.0 = 444.4444444444444,
\*     * 4.5 = 1999.9999999999998
\* On every other sample pair the f64 product truncates to the same integer
\* as the exact one.
F64ProductBelow == {<<110, 44>>, <<135, 18>>}

\* `(beats as f64 * beat_duration_ms) as u32` with
\* beat_duration_ms = (60.0 / tempo) * 1000.0, for beats in quarter beats.
beats_to_ms(beats, tempo) ==
    IF <<tempo, beats>> \in F64ProductBelow
    THEN (beats * 15000) \div tempo - 1
    ELSE (beats * 15000) \div tempo

\* CCValue::get_transition_duration_ms
get_transition_duration_ms(cc, tempo) ==
    IF ~cc.transition THEN None
    ELSE IF cc.transition_ms # None THEN Some(cc.transition_ms[1])
    ELSE IF cc.transition_beats # None
    THEN Some(beats_to_ms(cc.transition_beats[1], tempo))
    ELSE None

WithTransitionBeats ==
    /\ \E beats \in SampleBeats, curve \in Curves :
         /\ cc_value' = with_transition_beats(cc_value, beats, curve)
         /\ ret' = [op |-> "with_transition_beats", args |-> <<beats, curve>>,
                    result |-> "Self"]
    /\ UNCHANGED <<command_queue, queue_lock, running, thread_handle, connections,
                   midi_engine, threadVars, producerVars, opc, wire, dequeued,
                   cc_input, transitions, managerVars, link, timing, controller, locks,
                   a_scene, a_project, sync>>

WithTransitionMs ==
    /\ \E ms \in SampleMs, curve \in Curves :
         /\ cc_value' = with_transition_ms(cc_value, ms, curve)
         /\ ret' = [op |-> "with_transition_ms", args |-> <<ms, curve>>,
                    result |-> "Self"]
    /\ UNCHANGED <<command_queue, queue_lock, running, thread_handle, connections,
                   midi_engine, threadVars, producerVars, opc, wire, dequeued,
                   cc_input, transitions, managerVars, link, timing, controller, locks,
                   a_scene, a_project, sync>>

\* The CC editor's apply_changes: value and transition are set from the
\* controls; with the transition enabled transition_beats and curve are set,
\* otherwise transition_beats is cleared. transition_ms is never touched.
ApplyChanges ==
    /\ \E current_value \in SampleValues, transition_enabled \in BOOLEAN,
          beats \in SampleBeats, curve \in Curves :
         /\ cc_value' =
              IF transition_enabled
              THEN [cc_value EXCEPT !.value = current_value, !.transition = TRUE,
                                    !.transition_beats = Some(beats),
                                    !.curve = curve]
              ELSE [cc_value EXCEPT !.value = current_value, !.transition = FALSE,
                                    !.transition_beats = None]
         /\ ret' = [op |-> "apply_changes", args |-> <<>>, result |-> "()"]
    /\ UNCHANGED <<command_queue, queue_lock, running, thread_handle, connections,
                   midi_engine, threadVars, producerVars, opc, wire, dequeued,
                   cc_input, transitions, managerVars, link, timing, controller, locks,
                   a_scene, a_project, sync>>

GetTransitionDurationMs ==
    /\ \E tempo \in SampleTempos :
         ret' = [op |-> "get_transition_duration_ms", args |-> <<tempo>>,
                 result |-> get_transition_duration_ms(cc_value, tempo)]
    /\ UNCHANGED <<command_queue, queue_lock, running, thread_handle, connections,
                   midi_engine, threadVars, producerVars, opc, wire, dequeued,
                   cc_input, transitions, cc_value, managerVars, link, timing, controller, locks,
                   a_scene, a_project, sync>>

\* ---------------------------------------------------------- TransitionCurve
\* Positions and curve values (f64 in 0.0..1.0 in the source) are held in
\* ten-thousandths, truncated: One is 1.0.
One == 10000
Positions == {i * (One \div 8) : i \in 0..8}

\* The integer square root of n, searched between lo and hi.
RECURSIVE SqrtBetween(_, _, _)
SqrtBetween(n, lo, hi) ==
    IF lo >= hi THEN lo
    ELSE LET mid == (lo + hi + 1) \div 2 IN
           IF mid * mid <= n THEN SqrtBetween(n, mid, hi)
           ELSE SqrtBetween(n, lo, mid - 1)

\* f64::sqrt of a position.
sqrt(position) == SqrtBetween(position * One, 0, One)

\* A faulty apply with the Exponential and Logarithmic arms exchanged.
\* C20 must not survive it.
apply_arms_exchanged(curve, position) ==
    CASE curve = "Linear" -> position
      [] curve = "Exponential" -> sqrt(position)
      [] curve = "Logarithmic" -> (position * position) \div One
      [] curve = "SCurve" ->
           LET x == position IN
             (3 * x * x) \div One - (((2 * x * x) \div One) * x) \div One

\* TransitionCurve::apply
apply(curve, position) ==
    CASE curve = "Linear" -> position
      [] curve = "Exponential" -> (position * position) \div One
      [] curve = "Logarithmic" -> sqrt(position)
      [] curve = "SCurve" ->
           LET x == position IN
             (3 * x * x) \div One - (((2 * x * x) \div One) * x) \div One

CurveApply ==
    /\ \E curve \in Curves, position \in Positions :
         ret' = [op |-> "apply", args |-> <<curve, position>>,
                 result |-> apply(curve, position)]
    /\ UNCHANGED <<command_queue, queue_lock, running, thread_handle, connections,
                   midi_engine, threadVars, producerVars, opc, wire, dequeued,
                   cc_input, transitions, cc_value, managerVars, link, timing, controller, locks,
                   a_scene, a_project, sync>>

ValueNext ==
    \/ WithTransitionBeats
    \/ WithTransitionMs
    \/ ApplyChanges
    \/ GetTransitionDurationMs
    \/ CurveApply

ValueSpec == Init /\ [][ValueNext]_vars

\* ---------------------------------------------------- the scheduler commands
\* Two scenes, their cc_values keyed "channel:cc_number" as Scene::add_cc keys
\* them. SceneA sends 0:7 at once and moves 0:8 over 4 beats; SceneB holds 0:8
\* and 0:9. Key 0:7 is only in SceneA, key 0:9 only in SceneB.
SceneA ==
    [id |-> "a", trigger_mode |-> [mode |-> "Immediate", n |-> 0],
     cc_values |-> [k \in {"0:7", "0:8"} |->
                      IF k = "0:7" THEN CC(0, 7, 100)
                      ELSE with_transition_beats(CC(0, 8, 64), 16, "Linear")]]
SceneB ==
    [id |-> "b", trigger_mode |-> [mode |-> "Immediate", n |-> 0],
     cc_values |-> [k \in {"0:8", "0:9"} |->
                      IF k = "0:8" THEN CC(0, 8, 10) ELSE CC(0, 9, 127)]]

\* The MidiCommand values a caller of send_command can build besides SendCC
\* and SetTempo: two Transitions on the same (channel, cc_number), an
\* ActivateScene, a MorphScenes and StopTransitions.
SchedCommands(p) ==
    {[type |-> "Transition", channel |-> 0, cc_number |-> 7,
      start_value |-> v[1], end_value |-> v[2], duration_ms |-> 500,
      curve |-> "Linear", src |-> p, seq |-> nsends + 1] :
        v \in {<<0, 100>>, <<100, 20>>}}
    \cup {[type |-> "ActivateScene", scene |-> SceneA, quantize_beats |-> None,
           src |-> p, seq |-> nsends + 1],
          [type |-> "MorphScenes", start_scene |-> SceneA, end_scene |-> SceneB,
           duration_ms |-> 500, curve |-> "SCurve", src |-> p, seq |-> nsends + 1],
          [type |-> "StopTransitions", src |-> p, seq |-> nsends + 1]}

\* A caller locks the engine mutex and calls send_command with one of them.
SchedCall(p) ==
    /\ ppc[p] \in {"idle", "Ok"}
    /\ midi_engine = "free"
    /\ nsends < MaxSends
    /\ \E c \in SchedCommands(p) : pcmd' = [pcmd EXCEPT ![p] = c]
    /\ midi_engine' = p
    /\ nsends' = nsends + 1
    /\ ppc' = [ppc EXCEPT ![p] = "lock"]
    /\ UNCHANGED <<command_queue, queue_lock, running, thread_handle, connections,
                   threadVars, opc, ret, wire, dequeued, cc_input,
                   transitions, cc_value, managerVars, link, timing, controller, locks,
                   a_scene, a_project, sync>>

SchedNext ==
    \/ Start
    \/ AddOutput(EngineDevices)
    \/ SchedCall("ui") \/ ProducerLock("ui") \/ ProducerPush("ui")
    \/ \E t \in Threads :
         \/ ThreadWhile(t)
         \/ ThreadLock(t)
         \/ ThreadPop(t)
         \/ ThreadProcess(t)
         \/ ThreadRelock(t)
         \/ ThreadSleep(t)

SchedSpec == Init /\ [][SchedNext]_vars

\* ----------------------------------------------------------- ProjectManager
\* TriggerMode: Immediate, NextBeat, Beats(n) for every u8 n, NextBar.
TriggerModes ==
    {[mode |-> m, n |-> 0] : m \in {"Immediate", "NextBeat", "NextBar"}}
    \cup {[mode |-> "Beats", n |-> n] : n \in U8}

\* A project whose one scene, "a", has the given trigger mode.
ProjectWith(trigger_mode) ==
    [scenes |-> [id \in {"a"} |-> [SceneA EXCEPT !.trigger_mode = trigger_mode]],
     grid_assignments |-> <<>>]

\* A faulty mapping that lets Beats(n) fall through to the catch-all arm.
\* C16 must not survive it.
quantize_beats_without_beats_arm(trigger_mode) ==
    IF trigger_mode.mode # "Immediate"
    THEN Some(CASE trigger_mode.mode = "NextBeat" -> 1
                [] trigger_mode.mode = "NextBar" -> 4
                [] OTHER -> 0)
    ELSE None

\* The quantize_beats that activate_scene computes from scene.trigger_mode.
quantize_beats(trigger_mode) ==
    IF trigger_mode.mode # "Immediate"
    THEN Some(CASE trigger_mode.mode = "NextBeat" -> 1
                [] trigger_mode.mode = "Beats" -> trigger_mode.n
                [] trigger_mode.mode = "NextBar" -> 4
                [] OTHER -> 0)
    ELSE None

\* ProjectManager::import_project: the file is read and saved (either can
\* fail), the active_project mutex is taken and the project becomes the
\* active one. active_scene_id is not touched.
ImportProject ==
    /\ locks.active_project = "free"
    /\ \E stored \in BOOLEAN :
         IF stored /\ import_file # None
         THEN /\ active_project' = import_file
              /\ ret' = [op |-> "import_project", args |-> <<>>, result |-> "Ok"]
         ELSE /\ active_project' = active_project
              /\ ret' = [op |-> "import_project", args |-> <<>>,
                         result |-> "StorageError"]
    /\ UNCHANGED <<command_queue, queue_lock, running, thread_handle, connections,
                   midi_engine, threadVars, producerVars, opc, wire, dequeued,
                   cc_input, transitions, cc_value, active_scene_id, import_file,
                   link, timing, controller, locks, a_scene, a_project, sync>>

\* ProjectManager::activate_scene: the active_project mutex is taken, the
\* scene is looked up in the active project, the engine mutex is taken, the
\* ActivateScene command is pushed by send_command and the scene becomes the
\* active one.
activate_scene(scene_id) ==
    /\ locks.active_project = "free"
    /\ IF active_project = None
       THEN /\ ret' = [op |-> "activate_scene", args |-> <<scene_id>>,
                       result |-> "NoActiveProject"]
            /\ UNCHANGED <<command_queue, nsends, active_scene_id>>
       ELSE IF scene_id \notin DOMAIN active_project[1].scenes
       THEN /\ ret' = [op |-> "activate_scene", args |-> <<scene_id>>,
                       result |-> "InvalidSceneId"]
            /\ UNCHANGED <<command_queue, nsends, active_scene_id>>
       ELSE /\ midi_engine = "free"
            /\ queue_lock = "free"
            /\ nsends < MaxSends
            /\ LET scene == active_project[1].scenes[scene_id] IN
                 command_queue' = Append(command_queue,
                   [type |-> "ActivateScene", scene |-> scene,
                    quantize_beats |-> quantize_beats(scene.trigger_mode),
                    src |-> "ui", seq |-> nsends + 1])
            /\ nsends' = nsends + 1
            /\ active_scene_id' = Some(scene_id)
            /\ ret' = [op |-> "activate_scene", args |-> <<scene_id>>,
                       result |-> "Ok"]

\* A UI command calls activate_scene.
ActivateScene(scene_id) ==
    /\ activate_scene(scene_id)
    /\ UNCHANGED <<queue_lock, running, thread_handle, connections, midi_engine,
                   threadVars, ppc, pcmd, opc, wire, dequeued, cc_input,
                   transitions, cc_value, active_project, import_file, link,
                   timing, controller, locks, a_scene, a_project, sync>>

\* The scene ids activate_scene is called with: one of the project, one not.
SceneIds == {"a", "zz"}

ManagerNext ==
    \/ ImportProject
    \/ \E scene_id \in SceneIds : ActivateScene(scene_id)

\* The file that import_project reads holds a project whose scene has any of
\* the trigger modes.
ManagerInit ==
    /\ InitEngine
    /\ InitLink
    /\ InitModels
    /\ cc_input = <<0, 0, 0>>
    /\ cc_value = NewCCValue
    /\ active_project = None
    /\ active_scene_id = None
    /\ \E m \in TriggerModes : import_file = Some(ProjectWith(m))

ManagerSpec == ManagerInit /\ [][ManagerNext]_vars

\* ---------------------------------------------------------- LinkIntegration
\* Everything but the LinkIntegration, its timing threads and ret.
notLinkVars == <<command_queue, queue_lock, running, thread_handle, connections,
                 midi_engine, threadVars, producerVars, opc, wire, dequeued,
                 cc_input, transitions, cc_value, managerVars, controller,
                 locks, a_scene, a_project, sync>>

\* Numbers of peers the session can have, tempos in BPM and beat positions in
\* quarter beats (-1.25, 0, 1.5 and 4.25 beats) that the callers pass.
SamplePeers == {0, 1, 2}
LinkTempos == {default_tempo, 140}
SampleBeatPositions == {-5, 0, 6, 17}

\* 16-bit limbs: a u64 is held as four of them, the most significant first.
LimbMax == 65535

\* The test of set_tempo, `!self.link.num_peers() > 0`: the `!` applies to the
\* u64 peer count, the comparison to its bitwise complement.
not_num_peers_gt_0(num_peers) ==
    LET u64 == <<0, 0, 0, num_peers>>
        complement == [i \in 1..4 |-> LimbMax - u64[i]]
    IN \E i \in 1..4 : complement[i] > 0

\* f64 `%`: the remainder has the sign of the dividend.
rem(a, b) == IF a >= 0 THEN a % b ELSE -((-a) % b)

\* One bar of 4.0 beats in quarter beats; phases are held in sixteenths.
Bar == 16

\* LinkIntegration::enable. A disabled AblLink has no peers.
LinkEnable ==
    /\ timing.caller = "idle"
    /\ \E enable \in BOOLEAN :
         /\ link' = [link EXCEPT !.enabled = enable, !.link.enabled = enable,
                                 !.link.num_peers =
                                    IF enable THEN link.link.num_peers ELSE 0]
         /\ ret' = [op |-> "enable", args |-> <<enable>>, result |-> "()"]
    /\ UNCHANGED <<notLinkVars, timing>>

\* The session changes while the AblLink is enabled: peers come and go, and
\* when there are peers the session's tempo is theirs.
PeersChange ==
    /\ link.link.enabled
    /\ \E n \in SamplePeers, bpm \in LinkTempos :
         link' = [link EXCEPT !.link.num_peers = n,
                              !.link.tempo = IF n > 0 THEN bpm ELSE link.link.tempo]
    /\ UNCHANGED <<notLinkVars, timing, ret>>

\* LinkIntegration::set_tempo. before is history: the peers and the stored
\* tempo at the call.
LinkSetTempo ==
    /\ timing.caller = "idle"
    /\ \E tempo \in LinkTempos :
         /\ link' = [link EXCEPT !.link.tempo = tempo,
                                 !.tempo = IF not_num_peers_gt_0(link.link.num_peers)
                                           THEN tempo ELSE link.tempo]
         /\ ret' = [op |-> "set_tempo", args |-> <<tempo>>, result |-> "()",
                    before |-> [num_peers |-> link.link.num_peers,
                                tempo |-> link.tempo]]
    /\ UNCHANGED <<notLinkVars, timing>>

\* LinkIntegration::get_tempo
GetTempo ==
    /\ timing.caller = "idle"
    /\ IF link.enabled
       THEN /\ link' = [link EXCEPT !.tempo = link.link.tempo]
            /\ ret' = [op |-> "get_tempo", args |-> <<>>, result |-> link.link.tempo,
                       before |-> [enabled |-> TRUE, tempo |-> link.tempo]]
       ELSE /\ link' = link
            /\ ret' = [op |-> "get_tempo", args |-> <<>>, result |-> link.tempo,
                       before |-> [enabled |-> FALSE, tempo |-> link.tempo]]
    /\ UNCHANGED <<notLinkVars, timing>>

\* LinkIntegration::get_beat_position: the value returned and the object after.
get_beat_position(l) ==
    IF l.enabled
    THEN [beat |-> l.link.beat, link |-> [l EXCEPT !.beat_position = l.link.beat]]
    ELSE [beat |-> l.beat_position, link |-> l]

\* LinkIntegration::get_phase
get_phase(l) == rem(get_beat_position(l).beat, Bar)

GetPhase ==
    /\ timing.caller = "idle"
    /\ link' = get_beat_position(link).link
    /\ ret' = [op |-> "get_phase", args |-> <<>>, result |-> get_phase(link)]
    /\ UNCHANGED <<notLinkVars, timing>>

\* LinkIntegration::reset_beat_position
ResetBeatPosition ==
    /\ timing.caller = "idle"
    /\ \E beat \in SampleBeatPositions :
         /\ link' = [link EXCEPT !.link.beat = beat, !.beat_position = beat]
         /\ ret' = [op |-> "reset_beat_position", args |-> <<beat>>, result |-> "()"]
    /\ UNCHANGED <<notLinkVars, timing>>

LinkNext ==
    \/ LinkEnable
    \/ PeersChange
    \/ LinkSetTempo
    \/ GetTempo
    \/ GetPhase
    \/ ResetBeatPosition

LinkSpec == Init /\ [][LinkNext]_vars

\* ------------------------------------------- the Link timing thread
\* The timing threads that were spawned and have not left their loop.
LiveTiming == {t \in Threads : timing.threads[t].pc \in {"while", "poll"}}
SpawnedTiming == {t \in Threads : timing.threads[t].pc # "none"}

\* LinkIntegration::set_beat_callback
SetBeatCallback ==
    /\ timing.caller = "idle"
    /\ link' = [link EXCEPT !.beat_callback = Some("callback")]
    /\ ret' = [op |-> "set_beat_callback", args |-> <<>>, result |-> "()"]
    /\ UNCHANGED <<notLinkVars, timing>>

\* LinkIntegration::set_bar_callback
SetBarCallback ==
    /\ timing.caller = "idle"
    /\ link' = [link EXCEPT !.bar_callback = Some("callback")]
    /\ ret' = [op |-> "set_bar_callback", args |-> <<>>, result |-> "()"]
    /\ UNCHANGED <<notLinkVars, timing>>

\* The second half of start(): get_tempo() for the new AblLink, thread::spawn
\* with last_beat = last_bar = 0, the handle is stored.
spawn_timing(l, tm) ==
    LET t == Cardinality(SpawnedTiming) + 1 IN
      [link |-> [l EXCEPT !.tempo = IF l.enabled THEN l.link.tempo ELSE l.tempo,
                          !.thread_handle = Some(t)],
       timing |-> [tm EXCEPT !.threads[t] = [NoTiming EXCEPT !.pc = "while"],
                             !.caller = "idle"]]

\* LinkIntegration::start up to the join inside its stop(): with no handle
\* stop() does nothing and the thread is spawned at once; with a handle the
\* handle is taken, enabled is set to false and the caller waits in join().
LinkStart ==
    /\ timing.caller = "idle"
    /\ Cardinality(SpawnedTiming) < MaxSpawns
    /\ IF link.thread_handle = None
       THEN /\ link' = spawn_timing(link, timing).link
            /\ timing' = spawn_timing(link, timing).timing
            /\ ret' = [op |-> "start", args |-> <<>>, result |-> "()"]
       ELSE /\ link' = [link EXCEPT !.thread_handle = None, !.enabled = FALSE]
            /\ timing' = [timing EXCEPT !.caller = <<"start", link.thread_handle[1]>>]
            /\ ret' = ret
    /\ UNCHANGED notLinkVars

\* LinkIntegration::start once the join of its stop() has returned.
LinkStartSpawn ==
    /\ timing.caller # "idle"
    /\ timing.caller[1] = "start"
    /\ timing.threads[timing.caller[2]].pc = "exited"
    /\ link' = spawn_timing(link, timing).link
    /\ timing' = spawn_timing(link, timing).timing
    /\ ret' = [op |-> "start", args |-> <<>>, result |-> "()"]
    /\ UNCHANGED notLinkVars

\* LinkIntegration::stop up to its join.
LinkStop ==
    /\ timing.caller = "idle"
    /\ IF link.thread_handle = None
       THEN /\ UNCHANGED <<link, timing, controller, locks,
                   a_scene, a_project, sync>>
            /\ ret' = [op |-> "stop", args |-> <<>>, result |-> "()"]
       ELSE /\ link' = [link EXCEPT !.thread_handle = None, !.enabled = FALSE]
            /\ timing' = [timing EXCEPT !.caller = <<"stop", link.thread_handle[1]>>]
            /\ ret' = ret
    /\ UNCHANGED notLinkVars

\* LinkIntegration::stop once the join has returned.
LinkStopJoin ==
    /\ timing.caller # "idle"
    /\ timing.caller[1] = "stop"
    /\ timing.threads[timing.caller[2]].pc = "exited"
    /\ timing' = [timing EXCEPT !.caller = "idle"]
    /\ ret' = [op |-> "stop", args |-> <<>>, result |-> "()"]
    /\ UNCHANGED <<notLinkVars, link>>

\* The loop test `while *enabled.lock().unwrap()`; the locals of a thread that
\* leaves the loop are gone.
TimingWhile(t) ==
    /\ timing.threads[t].pc = "while"
    /\ timing' = [timing EXCEPT !.threads[t] =
                    IF link.enabled THEN [@ EXCEPT !.pc = "poll"]
                    ELSE [NoTiming EXCEPT !.pc = "exited"]]
    /\ UNCHANGED <<notLinkVars, link, ret>>

\* `beat.floor() as u32` for a beat position in quarter beats.
floor_as_u32(beat) == IF beat < 0 THEN 0 ELSE beat \div 4

\* One pass of the loop body and the 10 ms sleep: with peers the beat position
\* is read and stored, and each callback that is set is invoked once when the
\* beat (the bar) differs from last_beat (last_bar).
TimingPoll(t) ==
    /\ timing.threads[t].pc = "poll"
    /\ LET th == timing.threads[t]
           current_beat == floor_as_u32(th.link.beat)
           current_bar == current_beat \div 4
       IN IF th.link.num_peers > 0
          THEN /\ link' = [link EXCEPT !.beat_position = th.link.beat]
               /\ timing' = [timing EXCEPT
                    !.threads[t] = [th EXCEPT !.pc = "while",
                                              !.last_beat = current_beat,
                                              !.last_bar = current_bar],
                    !.fired = [beat |-> IF current_beat # th.last_beat
                                           /\ link.beat_callback # None
                                        THEN 1 ELSE 0,
                               bar |-> IF current_bar # th.last_bar
                                          /\ link.bar_callback # None
                                       THEN 1 ELSE 0]]
          ELSE /\ link' = link
               /\ timing' = [timing EXCEPT !.threads[t].pc = "while",
                                           !.fired = [beat |-> 0, bar |-> 0]]
    /\ UNCHANGED <<notLinkVars, ret>>

\* Time passes for the AblLink a timing thread polls: its beat position moves
\* on by half a beat and peers come or go. That AblLink is the one start()
\* made with AblLink::new; the program never calls enable on it, and whether
\* the library then ever reports peers for it is left open.
TimingLinkAdvance(t) ==
    /\ timing.threads[t].pc \in {"while", "poll"}
    /\ timing.threads[t].link.beat + 2 <= 4 * MaxBeat
    /\ \E n \in {0, 1} :
         timing' = [timing EXCEPT !.threads[t].link =
                      [num_peers |-> n, beat |-> timing.threads[t].link.beat + 2]]
    /\ UNCHANGED <<notLinkVars, link, ret>>

LinkLoopNext ==
    \/ LinkEnable
    \/ SetBeatCallback
    \/ SetBarCallback
    \/ LinkStart
    \/ LinkStartSpawn
    \/ LinkStop
    \/ LinkStopJoin
    \/ \E t \in Threads : TimingWhile(t) \/ TimingPoll(t) \/ TimingLinkAdvance(t)

LinkLoopSpec == Init /\ [][LinkLoopNext]_vars

\* -------------------------------------------------------------------- Scene
\* Everything outside the ProjectManager, the controller and the two model
\* objects, ret excepted.
appVars == <<command_queue, queue_lock, running, thread_handle, connections,
             midi_engine, threadVars, producerVars, opc, wire, dequeued,
             cc_input, transitions, cc_value, link, timing, sync>>

\* HashMap::insert, remove and get; a HashMap is a function on its keys.
insert(map, key, value) ==
    [k \in DOMAIN map \cup {key} |-> IF k = key THEN value ELSE map[k]]
remove(map, key) == [k \in DOMAIN map \ {key} |-> map[k]]
get(map, key) == IF key \in DOMAIN map THEN Some(map[key]) ELSE None

\* format!("{}", n) of a u8: the character codes of its decimal digits.
RECURSIVE Digits(_)
Digits(n) ==
    IF n < 10 THEN <<48 + n>> ELSE Digits(n \div 10) \o <<48 + (n % 10)>>

\* A faulty key that leaves the colon out, so that 1:23 and 12:3 collide.
\* C26 must not survive it.
cc_key_without_colon(channel, cc_number) == Digits(channel) \o Digits(cc_number)

\* format!("{}:{}", channel, cc_number): both numbers in decimal with a colon
\* (character 58) between them.
cc_key(channel, cc_number) == Digits(channel) \o <<58>> \o Digits(cc_number)

\* Scene::add_cc
add_cc(s, cc) ==
    [s EXCEPT !.cc_values = insert(@, cc_key(cc.channel, cc.cc_number), cc)]

\* Scene::add_cc_values: add_cc for each value, in order.
RECURSIVE add_cc_values(_, _)
add_cc_values(s, ccs) ==
    IF ccs = <<>> THEN s ELSE add_cc_values(add_cc(s, Head(ccs)), Tail(ccs))

\* Scene::get_cc
get_cc(s, channel, cc_number) == get(s.cc_values, cc_key(channel, cc_number))

\* Scene::remove_cc
remove_cc(s, channel, cc_number) ==
    [s EXCEPT !.cc_values = remove(@, cc_key(channel, cc_number))]

\* The values the callers add: two values for channel 1 controller 23, one for
\* channel 12 controller 3. The pairs they ask for: these and one never added.
SceneCCs == {CC(1, 23, 10), CC(1, 23, 20), CC(12, 3, 30)}
ScenePairs == {<<1, 23>>, <<12, 3>>, <<0, 7>>}

AddCc ==
    /\ \E cc \in SceneCCs :
         /\ a_scene' = add_cc(a_scene, cc)
         /\ ret' = [op |-> "add_cc", args |-> <<cc>>, before |-> a_scene,
                    result |-> "self"]
    /\ UNCHANGED <<appVars, managerVars, controller, locks, a_project>>

AddCcValues ==
    /\ \E cc1 \in SceneCCs, cc2 \in SceneCCs, n \in 0..2 :
         LET ccs == SubSeq(<<cc1, cc2>>, 1, n) IN
           /\ a_scene' = add_cc_values(a_scene, ccs)
           /\ ret' = [op |-> "add_cc_values", args |-> <<ccs>>,
                      before |-> a_scene, result |-> "self"]
    /\ UNCHANGED <<appVars, managerVars, controller, locks, a_project>>

GetCc ==
    /\ \E p \in ScenePairs :
         ret' = [op |-> "get_cc", args |-> p, before |-> a_scene,
                 result |-> get_cc(a_scene, p[1], p[2])]
    /\ UNCHANGED <<appVars, managerVars, controller, locks, a_scene, a_project>>

RemoveCc ==
    /\ \E p \in ScenePairs :
         /\ a_scene' = remove_cc(a_scene, p[1], p[2])
         /\ ret' = [op |-> "remove_cc", args |-> p, before |-> a_scene,
                    result |-> get_cc(a_scene, p[1], p[2])]
    /\ UNCHANGED <<appVars, managerVars, controller, locks, a_project>>

SceneNext == AddCc \/ AddCcValues \/ GetCc \/ RemoveCc

SceneSpec == Init /\ [][SceneNext]_vars

\* ------------------------------------------------------------------ Project
\* Project::add_scene
add_scene(p, s) == [p EXCEPT !.scenes = insert(@, s.id, s)]

\* A faulty remove_scene that leaves the grid assignments alone. C36 must not
\* survive it.
remove_scene_keeping_assignments(p, id) == [p EXCEPT !.scenes = remove(@, id)]

\* Project::remove_scene: the assignments to the scene are dropped first.
remove_scene(p, id) ==
    [p EXCEPT !.grid_assignments =
                [q \in {x \in DOMAIN @ : @[x] # id} |-> @[q]],
              !.scenes = remove(@, id)]

\* A faulty assign_to_grid whose position test lets 64 through. C27 must not
\* survive it.
assign_to_grid_accepting_64(p, scene_id, position) ==
    IF position > 64
    THEN [result |-> "Grid position must be between 0 and 63", project |-> p]
    ELSE IF scene_id \notin DOMAIN p.scenes
    THEN [result |-> "Scene with ID not found", project |-> p]
    ELSE [result |-> "Ok",
          project |-> [p EXCEPT !.scenes[scene_id].grid_position = Some(position),
                                !.grid_assignments = insert(@, position, scene_id)]]

\* Project::assign_to_grid: the result and the project it leaves.
assign_to_grid(p, scene_id, position) ==
    IF position >= 64
    THEN [result |-> "Grid position must be between 0 and 63", project |-> p]
    ELSE IF scene_id \notin DOMAIN p.scenes
    THEN [result |-> "Scene with ID not found", project |-> p]
    ELSE [result |-> "Ok",
          project |-> [p EXCEPT !.scenes[scene_id].grid_position = Some(position),
                                !.grid_assignments = insert(@, position, scene_id)]]

\* Project::get_scene_at_grid
get_scene_at_grid(p, position) ==
    IF position >= 64 THEN None
    ELSE IF position \in DOMAIN p.grid_assignments
    THEN get(p.scenes, p.grid_assignments[position])
    ELSE None

\* The scene ids and grid positions the callers use: "non-existent" is never
\* added; 5 and 63 are on the grid, 64 and 100 are not.
ProjectSceneIds == {"scene-1", "scene-2", "non-existent"}
GridPositions == {5, 63, 64, 100}

AddScene ==
    /\ \E id \in ProjectSceneIds \ {"non-existent"} :
         /\ a_project' = add_scene(a_project, NewScene(id))
         /\ ret' = [op |-> "add_scene", args |-> <<id>>, before |-> a_project,
                    result |-> "self"]
    /\ UNCHANGED <<appVars, managerVars, controller, locks, a_scene>>

RemoveScene ==
    /\ \E id \in ProjectSceneIds :
         /\ a_project' = remove_scene(a_project, id)
         /\ ret' = [op |-> "remove_scene", args |-> <<id>>, before |-> a_project,
                    result |-> get(a_project.scenes, id)]
    /\ UNCHANGED <<appVars, managerVars, controller, locks, a_scene>>

AssignToGrid ==
    /\ \E scene_id \in ProjectSceneIds, position \in GridPositions :
         /\ a_project' = assign_to_grid(a_project, scene_id, position).project
         /\ ret' = [op |-> "assign_to_grid", args |-> <<scene_id, position>>,
                    before |-> a_project,
                    result |-> assign_to_grid(a_project, scene_id, position).result]
    /\ UNCHANGED <<appVars, managerVars, controller, locks, a_scene>>

ProjectNext == AddScene \/ RemoveScene \/ AssignToGrid

ProjectSpec == Init /\ [][ProjectNext]_vars

\* --------------------------------------------------------------- controller
\* LaunchpadMk2::new: no connection, no callback.
NewController == [event_callback |-> None, input_connection |-> None]

\* LaunchpadMk2::map_to_app_grid_id
map_to_app_grid_id(controller_id) ==
    LET row == controller_id \div 10
        col == controller_id % 10
    IN IF row < 1 \/ row > 8 \/ col < 1 \/ col > 8
       THEN None
       ELSE Some(((row - 1) * 8) + (col - 1))

\* A faulty input handler that has no arm for a Note On of velocity 0. C29
\* must not survive it.
input_event_without_release(message) ==
    IF Len(message) < 3 THEN None
    ELSE LET status == message[1]
             note == message[2]
             velocity == message[3]
         IN CASE status = 144 ->
                   Some([type |-> "PadPressed", id |-> note, velocity |-> velocity])
              [] status = 176 /\ velocity = 0 ->
                   Some([type |-> "ButtonReleased", id |-> note])
              [] status = 176 -> Some([type |-> "ButtonPressed", id |-> note])
              [] OTHER -> None

\* The event the input handler of connect makes of a message: 144 is 0x90
\* (Note On, channel 1), 176 is 0xB0 (Control Change, channel 1).
input_event(message) ==
    IF Len(message) < 3 THEN None
    ELSE LET status == message[1]
             note == message[2]
             velocity == message[3]
         IN CASE status = 144 /\ velocity = 0 ->
                   Some([type |-> "PadReleased", id |-> note])
              [] status = 144 ->
                   Some([type |-> "PadPressed", id |-> note, velocity |-> velocity])
              [] status = 176 /\ velocity = 0 ->
                   Some([type |-> "ButtonReleased", id |-> note])
              [] status = 176 -> Some([type |-> "ButtonPressed", id |-> note])
              [] OTHER -> None

\* LaunchpadMk2::connect: the input handler is built around a clone of the
\* event_callback the controller has at this moment. The input port or the
\* output port may be missing; the input connection is kept when only the
\* output port is.
connect(c, ports) ==
    IF ports = "no input" THEN c
    ELSE [c EXCEPT !.input_connection =
                     Some([event_callback |-> c.event_callback])]

\* LaunchpadMk2::set_event_callback: only the field changes.
set_event_callback(c, callback) == [c EXCEPT !.event_callback = Some(callback)]

\* The outcomes of opening the ports, the callback a direct user registers,
\* and the messages the hardware sends: presses of pads 11, 88 and 19 (19 is
\* outside the 8x8 grid), a release, a button press and release, a Note Off,
\* a message of two bytes and one of four.
PortOutcomes == {"ok", "no input", "no output"}
SampleMessages ==
    {<<144, 11, 100>>, <<144, 88, 127>>, <<144, 19, 1>>, <<144, 11, 0>>,
     <<176, 104, 127>>, <<176, 104, 0>>, <<128, 11, 0>>, <<144, 11>>,
     <<144, 88, 5, 0>>}

\* ControllerFactory::create_controller for a Launchpad MK2 device.
CreateController ==
    /\ controller.dev = None
    /\ controller' = [controller EXCEPT !.dev = Some(NewController)]
    /\ UNCHANGED <<appVars, managerVars, locks, a_scene, a_project, ret>>

SetEventCallback ==
    /\ controller.dev # None
    /\ controller' = [controller EXCEPT
                        !.dev = Some(set_event_callback(controller.dev[1], "record"))]
    /\ UNCHANGED <<appVars, managerVars, locks, a_scene, a_project, ret>>

Connect ==
    /\ controller.dev # None
    /\ \E ports \in PortOutcomes :
         /\ controller' = [controller EXCEPT
                             !.dev = Some(connect(controller.dev[1], ports))]
         /\ ret' = [op |-> "connect", args |-> <<>>,
                    result |-> IF ports = "ok" THEN "Ok" ELSE ports]
    /\ UNCHANGED <<appVars, managerVars, locks, a_scene, a_project>>

\* LaunchpadMk2::disconnect drops both connections.
Disconnect ==
    /\ controller.dev # None
    /\ controller' = [controller EXCEPT !.dev[1].input_connection = None]
    /\ ret' = [op |-> "disconnect", args |-> <<>>, result |-> "Ok"]
    /\ UNCHANGED <<appVars, managerVars, locks, a_scene, a_project>>

\* The closure connect_controller registers: a PadPressed whose pad is on the
\* grid takes the active_project mutex, looks up the scene at the position,
\* releases the mutex and calls activate_scene; every other event is ignored.
pad_pressed(event) ==
    IF event.type = "PadPressed" /\ map_to_app_grid_id(event.id) # None
    THEN /\ locks.active_project = "free"
         /\ LET at == IF active_project = None THEN None
                      ELSE get_scene_at_grid(active_project[1],
                                             map_to_app_grid_id(event.id)[1])
            IN IF at # None THEN activate_scene(at[1].id)
               ELSE UNCHANGED <<command_queue, nsends, active_scene_id, ret>>
    ELSE UNCHANGED <<command_queue, nsends, active_scene_id, ret>>

\* The hardware sends a message to a connected input: the handler makes the
\* event and hands it to the callback it was built with, if there is an event
\* and there was a callback.
MidiIn(message) ==
    /\ controller.dev # None
    /\ controller.dev[1].input_connection # None
    /\ controller.received < MaxMessages
    /\ LET event == input_event(message)
           callback == controller.dev[1].input_connection[1].event_callback
       IN /\ controller' = [controller EXCEPT
                !.received = @ + 1,
                !.last = [message |-> message, event |-> event,
                          called |-> IF event = None THEN None ELSE callback]]
          /\ IF event # None /\ callback = Some("pad_pressed")
             THEN pad_pressed(event[1])
             ELSE UNCHANGED <<command_queue, nsends, active_scene_id, ret>>
    /\ UNCHANGED <<queue_lock, running, thread_handle, connections, midi_engine,
                   threadVars, ppc, pcmd, opc, wire, dequeued, cc_input,
                   transitions, cc_value, active_project, import_file, link,
                   timing, locks, a_scene, a_project, sync>>

ControllerNext ==
    \/ CreateController
    \/ SetEventCallback
    \/ Connect
    \/ Disconnect
    \/ \E message \in SampleMessages : MidiIn(message)

ControllerSpec == Init /\ [][ControllerNext]_vars

\* ------------------------------------------- ProjectManager and controller
\* The devices connect_controller is asked for: a Launchpad MK2, an output
\* that is no controller, and an id the registry does not know.
ControllerDevices == {"Launchpad MK2", "synth", "unknown"}

\* ProjectManager::connect_controller. The device is looked up, the
\* controller is created and connected, and only then is the pad callback
\* registered. The controller mutex is taken, the controller stored, and
\* update_controller_grid is called with the mutex still held: it takes
\* active_project and then controller again. A std Mutex locked again by its
\* holder never returns: the thread blocks forever holding both mutexes, or
\* it panics and unwinding poisons both.
ConnectController ==
    /\ \E device_id \in ControllerDevices, ports \in PortOutcomes,
          relock \in {"held", "poisoned"} :
         IF device_id = "unknown"
         THEN /\ ret' = [op |-> "connect_controller", args |-> <<device_id>>,
                         result |-> "Device not found"]
              /\ UNCHANGED <<controller, locks>>
         ELSE IF device_id = "synth"
         THEN /\ ret' = [op |-> "connect_controller", args |-> <<device_id>>,
                         result |-> "not a supported controller"]
              /\ UNCHANGED <<controller, locks>>
         ELSE IF ports # "ok"
         THEN /\ ret' = [op |-> "connect_controller", args |-> <<device_id>>,
                         result |-> ports]
              /\ UNCHANGED <<controller, locks>>
         ELSE /\ locks.controller = "free"
              /\ locks.active_project = "free"
              /\ controller' = [controller EXCEPT
                   !.dev = Some(set_event_callback(connect(NewController, ports),
                                                   "pad_pressed"))]
              /\ locks' = [active_project |-> relock, controller |-> relock]
              /\ ret' = [op |-> "connect_controller", args |-> <<device_id>>,
                         result |-> "never returns"]
    /\ UNCHANGED <<appVars, managerVars, a_scene, a_project>>

\* An imported file whose project has scene "a" assigned to a grid position.
GridProject(position) ==
    assign_to_grid(
      add_scene(NewProject,
                [id |-> "a", trigger_mode |-> SceneA.trigger_mode,
                 cc_values |-> SceneA.cc_values, grid_position |-> None]),
      "a", position).project

PadInit ==
    /\ InitEngine
    /\ InitLink
    /\ InitModels
    /\ cc_input = <<0, 0, 0>>
    /\ cc_value = NewCCValue
    /\ active_project = None
    /\ active_scene_id = None
    /\ \E position \in {0, 63} : import_file = Some(GridProject(position))

PadNext ==
    \/ ImportProject
    \/ \E scene_id \in SceneIds : ActivateScene(scene_id)
    \/ ConnectController
    \/ \E message \in SampleMessages : MidiIn(message)

PadSpec == PadInit /\ [][PadNext]_vars

\* ------------------------------------------------- the loop on a long queue
\* send_command pushes whether or not the engine was started, so start can
\* find any number of commands queued: none, fewer than a batch, exactly one
\* batch, just more than one, and more than two.
BatchQueueLens == {0, 5, BatchSize, BatchSize + 2, 2 * BatchSize + 1}

BatchInit ==
    /\ \E n \in BatchQueueLens :
         /\ command_queue =
              [i \in 1..n |-> [type |-> "SendCC", channel |-> 0, cc_number |-> 7,
                               value |-> 100, bpm |-> 0, src |-> "ui", seq |-> i]]
         /\ nsends = n
    /\ queue_lock = "free"
    /\ running = TRUE
    /\ thread_handle = 0
    /\ connections = <<>>
    /\ midi_engine = "free"
    /\ tpc = [t \in Threads |-> "none"]
    /\ tbatch = [t \in Threads |-> 0]
    /\ tcmd = [t \in Threads |-> NoCmd]
    /\ ppc = [p \in Producers |-> "idle"]
    /\ pcmd = [p \in Producers |-> NoCmd]
    /\ opc = "idle"
    /\ ret = NoRet
    /\ wire = <<>>
    /\ dequeued = <<>>
    /\ transitions = <<>>
    /\ InitManager
    /\ InitLink
    /\ InitModels
    /\ cc_input = <<0, 0, 0>>

BatchNext ==
    \/ Start
    \/ ShutdownBegin
    \/ ShutdownJoin
    \/ \E t \in Threads :
         \/ ThreadWhile(t)
         \/ ThreadLock(t)
         \/ ThreadPop(t)
         \/ ThreadProcess(t)
         \/ ThreadRelock(t)
         \/ ThreadSleep(t)

BatchSpec == BatchInit /\ [][BatchNext]_vars

\* ------------------------------------------------------------ grid id maps
\* A faulty map_grid_id that numbers the rows from 0. C39 must not survive it.
map_grid_id_rows_from_0(app_grid_id) ==
    IF app_grid_id >= 64 THEN 0
    ELSE LET row == app_grid_id \div 8
             col == app_grid_id % 8
         IN (row * 10) + (col + 1)

\* LaunchpadMk2::map_grid_id (LaunchpadX::map_grid_id is the same).
map_grid_id(app_grid_id) ==
    IF app_grid_id >= 64 THEN 0
    ELSE LET row == app_grid_id \div 8
             col == app_grid_id % 8
         IN ((row + 1) * 10) + (col + 1)

\* The two maps applied to every u8.
MapGridId ==
    /\ \E g \in U8 :
         ret' = [op |-> "map_grid_id", args |-> <<g>>, result |-> map_grid_id(g)]
    /\ UNCHANGED <<appVars, managerVars, controller, locks, a_scene, a_project>>

MapToAppGridId ==
    /\ \E c \in U8 :
         ret' = [op |-> "map_to_app_grid_id", args |-> <<c>>,
                 result |-> map_to_app_grid_id(c)]
    /\ UNCHANGED <<appVars, managerVars, controller, locks, a_scene, a_project>>

MapNext == MapGridId \/ MapToAppGridId

MapSpec == Init /\ [][MapNext]_vars

\* ---------------------------------------------------- update_controller_grid
\* LaunchpadMk2::set_pad_color: the note the colour is sent to. The grid id it
\* is given is mapped with map_grid_id.
set_pad_color(grid_id) == map_grid_id(grid_id)

\* The body of ProjectManager::update_controller_grid for a project and a
\* connected controller: after clear() has set every pad to black, each grid
\* assignment whose scene exists gets a colour (green when the scene has
\* none) with set_pad_color(controller.map_grid_id(position), color). The
\* result is the set of notes that are lit.
update_controller_grid(p) ==
    {set_pad_color(map_grid_id(position)) :
       position \in {q \in DOMAIN p.grid_assignments :
                       get(p.scenes, p.grid_assignments[q]) # None}}

\* update_controller_grid is private and each of its callers blocks before
\* it gets to the controller; here its body is applied to the projects that
\* add_scene, remove_scene and assign_to_grid build.
UpdateControllerGrid ==
    /\ ret' = [op |-> "update_controller_grid", args |-> <<>>,
               before |-> a_project, result |-> update_controller_grid(a_project)]
    /\ UNCHANGED <<appVars, managerVars, controller, locks, a_scene, a_project>>

LightNext == ProjectNext \/ UpdateControllerGrid

LightSpec == Init /\ [][LightNext]_vars

\* ------------------------------------------- ProjectManager: every command
\* ProjectStorage::create_template_project: a project with one scene,
\* "default", that holds volume, pan, cutoff and resonance.
TemplateProject ==
    add_scene(NewProject,
              [id |-> "default", trigger_mode |-> [mode |-> "Immediate", n |-> 0],
               cc_values |-> [k \in {"0:7", "0:10", "0:74", "0:71"} |->
                                CASE k = "0:7" -> CC(0, 7, 100)
                                  [] k = "0:10" -> CC(0, 10, 64)
                                  [] k = "0:74" -> CC(0, 74, 127)
                                  [] OTHER -> CC(0, 71, 0)],
               grid_position |-> None])

\* ProjectManager::create_project and create_from_template: the project is
\* built and saved (which can fail), the active_project mutex is taken and
\* the project becomes the active one. active_scene_id is not touched.
create(op, project) ==
    /\ locks.active_project = "free"
    /\ \E saved \in BOOLEAN :
         IF saved
         THEN /\ active_project' = Some(project)
              /\ ret' = [op |-> op, args |-> <<>>, result |-> "Ok"]
         ELSE /\ active_project' = active_project
              /\ ret' = [op |-> op, args |-> <<>>, result |-> "StorageError"]

CreateProject ==
    /\ create("create_project", NewProject)
    /\ UNCHANGED <<appVars, active_scene_id, import_file, controller, locks,
                   a_scene, a_project>>

CreateFromTemplate ==
    /\ create("create_from_template", TemplateProject)
    /\ UNCHANGED <<appVars, active_scene_id, import_file, controller, locks,
                   a_scene, a_project>>

\* ProjectManager::load_project. The project is read from storage (here the
\* storage holds the project of the file), the active_project mutex is taken
\* and the project stored, the active_scene_id mutex is taken and the id
\* cleared, and update_controller_grid is called with both guards alive: its
\* first statement locks active_project again. The call never returns: the
\* thread blocks holding the mutex, or it panics and poisons it.
LoadProject ==
    /\ \E found \in BOOLEAN, relock \in {"held", "poisoned"} :
         IF ~found \/ import_file = None
         THEN /\ ret' = [op |-> "load_project", args |-> <<>>,
                         result |-> "StorageError"]
              /\ UNCHANGED <<active_project, active_scene_id, locks>>
         ELSE /\ locks.active_project = "free"
              /\ active_project' = import_file
              /\ active_scene_id' = None
              /\ locks' = [locks EXCEPT !.active_project = relock]
              /\ ret' = [op |-> "load_project", args |-> <<>>,
                         result |-> "never returns"]
    /\ UNCHANGED <<appVars, import_file, controller, a_scene, a_project>>

\* ProjectManager::assign_scene_to_grid. A position off the grid is refused
\* before any lock; then the active_project mutex is taken, the assignment
\* made in the active project and the project saved; each can fail and
\* return. After the save update_controller_grid is called with the guard
\* alive, and the call never returns.
AssignSceneToGrid(scene_id, position) ==
    /\ IF position >= 64
       THEN /\ ret' = [op |-> "assign_scene_to_grid", args |-> <<scene_id, position>>,
                       result |-> "InvalidGridPosition"]
            /\ UNCHANGED <<active_project, locks>>
       ELSE /\ locks.active_project = "free"
            /\ IF active_project = None
               THEN /\ ret' = [op |-> "assign_scene_to_grid",
                               args |-> <<scene_id, position>>,
                               result |-> "NoActiveProject"]
                    /\ UNCHANGED <<active_project, locks>>
               ELSE LET r == assign_to_grid(active_project[1], scene_id, position) IN
                    /\ active_project' = Some(r.project)
                    /\ IF r.result # "Ok"
                       THEN /\ ret' = [op |-> "assign_scene_to_grid",
                                       args |-> <<scene_id, position>>,
                                       result |-> r.result]
                            /\ UNCHANGED locks
                       ELSE \E saved \in BOOLEAN, relock \in {"held", "poisoned"} :
                              IF ~saved
                              THEN /\ ret' = [op |-> "assign_scene_to_grid",
                                              args |-> <<scene_id, position>>,
                                              result |-> "StorageError"]
                                   /\ UNCHANGED locks
                              ELSE /\ ret' = [op |-> "assign_scene_to_grid",
                                              args |-> <<scene_id, position>>,
                                              result |-> "never returns"]
                                   /\ locks' = [locks EXCEPT
                                                  !.active_project = relock]
    /\ UNCHANGED <<appVars, active_scene_id, import_file, controller, a_scene,
                   a_project>>

\* ProjectManager::get_active_scene: both mutexes are taken and the pair
\* (active_project, active_scene_id) is matched.
get_active_scene ==
    IF active_project # None /\ active_scene_id # None
    THEN IF get(active_project[1].scenes, active_scene_id[1]) # None
         THEN "Ok" ELSE "InvalidSceneId"
    ELSE IF active_project = None THEN "NoActiveProject"
    ELSE "NoActiveScene"

GetActiveScene ==
    /\ locks.active_project = "free"
    /\ ret' = [op |-> "get_active_scene", args |-> <<>>,
               result |-> get_active_scene]
    /\ UNCHANGED <<appVars, managerVars, controller, locks, a_scene, a_project>>

\* ProjectManager::close_active_project: the active_project and
\* active_scene_id mutexes are taken and both slots emptied; then the
\* controller mutex is taken and a connected controller cleared.
CloseActiveProject ==
    /\ locks.active_project = "free"
    /\ locks.controller = "free"
    /\ active_project' = None
    /\ active_scene_id' = None
    /\ ret' = [op |-> "close_active_project", args |-> <<>>, result |-> "Ok"]
    /\ UNCHANGED <<appVars, import_file, controller, locks, a_scene, a_project>>

\* The ids of the scenes the AI generator hands back: a fresh one, and one
\* that the active project already uses.
GeneratedIds == {"generated", "a"}

\* The save_generated_scene command: get_active_project returns a clone of
\* the active project, the generated scene is added to the clone, and
\* save_active_project writes the manager's own active project to storage.
\* stored is the project that was written.
SaveGeneratedScene ==
    /\ locks.active_project = "free"
    /\ \E scene_id \in GeneratedIds, saved \in BOOLEAN :
         IF active_project = None
         THEN ret' = [op |-> "save_generated_scene", args |-> <<scene_id>>,
                      result |-> "No active project", stored |-> None]
         ELSE LET project == add_scene(active_project[1],
                               [id |-> scene_id,
                                trigger_mode |-> [mode |-> "Immediate", n |-> 0],
                                cc_values |-> <<>>, grid_position |-> None])
              IN IF saved
                 THEN ret' = [op |-> "save_generated_scene", args |-> <<scene_id>>,
                              result |-> "success", stored |-> active_project,
                              clone |-> project]
                 ELSE ret' = [op |-> "save_generated_scene", args |-> <<scene_id>>,
                              result |-> "Failed to save project", stored |-> None]
    /\ UNCHANGED <<appVars, managerVars, controller, locks, a_scene, a_project>>

GridInit == PadInit

GridNext ==
    \/ ImportProject
    \/ CreateProject
    \/ CreateFromTemplate
    \/ LoadProject
    \/ \E scene_id \in SceneIds : ActivateScene(scene_id)
    \/ GetActiveScene
    \/ \E scene_id \in SceneIds, position \in GridPositions :
         AssignSceneToGrid(scene_id, position)
    \/ CloseActiveProject
    \/ ConnectController
    \/ SaveGeneratedScene

GridSpec == GridInit /\ [][GridNext]_vars

\* -------------------------------------------------- threads and mutexes
\* The calls a thread can begin. The pad callback exists once
\* connect_controller has registered it; a pad without a scene takes
\* active_project alone.
SyncCalls(t) ==
    CASE t = "ui" -> {activate_scene_locks, get_active_scene_locks,
                      load_project_locks, assign_scene_to_grid_locks,
                      connect_controller_locks, close_active_project_locks,
                      disconnect_controller_locks, send_cc_locks,
                      create_project_locks}
      [] t = "pad" -> IF sync.callback
                      THEN {pad_pressed_locks, create_project_locks} ELSE {}
      [] t = "link" -> {beat_callback_locks}
      [] t = "close" -> IF sync.running THEN {shutdown_locks} ELSE {}
      [] OTHER -> {}

Holder(m) == {t \in SyncThreads : m \in sync.held[t]}

\* The steps of a call from the release of m on: what is left when a lock()
\* that answered Err is skipped by if let Ok.
RECURSIVE AfterUnlock(_, _)
AfterUnlock(steps, m) ==
    IF steps = <<>> THEN <<>>
    ELSE IF Head(steps) = U(m) THEN Tail(steps)
    ELSE AfterUnlock(Tail(steps), m)

\* A thread that is in no call begins one.
SyncBegin(t) ==
    /\ sync.pc[t] = <<>>
    /\ t \notin sync.dead
    /\ \E steps \in SyncCalls(t) : sync' = [sync EXCEPT !.pc[t] = steps]
    /\ UNCHANGED <<command_queue, queue_lock, running, thread_handle, connections,
                   midi_engine, threadVars, producerVars, opc, ret, wire,
                   dequeued, cc_input, transitions, cc_value, managerVars, link,
                   timing, controller, locks, a_scene, a_project>>

\* A thread panics: unwinding drops its guards and poisons their mutexes. A
\* UI command that panics poisons the project_manager mutex as well, so no
\* further command gets to the manager. A join on a panicked loop returns.
panic(t) ==
    [sync EXCEPT !.pc[t] = <<>>, !.held[t] = {},
                 !.poisoned = @ \cup sync.held[t], !.dead = @ \cup {t},
                 !.exited = @ \/ t = "loop"]

\* A thread takes the next step of its call. lock() returns when no thread
\* holds the mutex; on a poisoned mutex it returns Err, which unwrap() turns
\* into a panic and if let Ok skips. lock() on a mutex the thread holds itself
\* never returns: the thread stays where it is, or it panics.
SyncStep(t) ==
    /\ sync.pc[t] # <<>>
    /\ LET step == Head(sync.pc[t])
           kind == step[1]
           m == step[2]
           rest == Tail(sync.pc[t])
       IN CASE kind \in {"lock", "try_lock"} ->
                 IF Holder(m) = {}
                 THEN IF m \notin sync.poisoned
                      THEN sync' = [sync EXCEPT
                             !.pc[t] = rest,
                             !.held[t] = @ \cup {m},
                             !.order = @ \cup {<<h, m>> : h \in sync.held[t]}]
                      ELSE IF kind = "lock" THEN sync' = panic(t)
                      ELSE sync' = [sync EXCEPT !.pc[t] = AfterUnlock(rest, m)]
                 ELSE /\ Holder(m) = {t}
                      /\ sync' = panic(t)
            [] kind = "unlock" ->
                 sync' = [sync EXCEPT !.pc[t] = rest, !.held[t] = @ \ {m}]
            [] kind = "set_event_callback" ->
                 sync' = [sync EXCEPT !.pc[t] = rest, !.callback = TRUE]
            [] kind = "stop" ->
                 sync' = [sync EXCEPT !.pc[t] = rest, !.running = FALSE]
            [] kind = "join" ->
                 /\ sync.exited
                 /\ sync' = [sync EXCEPT !.pc[t] = rest]
            [] kind = "while" ->
                 sync' = [sync EXCEPT
                            !.pc[t] = IF sync.running THEN rest
                                      ELSE <<U("running"), <<"exit", "">>>>]
            [] kind = "again" ->
                 sync' = [sync EXCEPT !.pc[t] = engine_loop_locks]
            [] OTHER ->
                 sync' = [sync EXCEPT !.pc[t] = rest, !.exited = TRUE]
    /\ UNCHANGED <<command_queue, queue_lock, running, thread_handle, connections,
                   midi_engine, threadVars, producerVars, opc, ret, wire,
                   dequeued, cc_input, transitions, cc_value, managerVars, link,
                   timing, controller, locks, a_scene, a_project>>

SyncNext == \E t \in SyncThreads : SyncBegin(t) \/ SyncStep(t)

SyncSpec == Init /\ [][SyncNext]_vars

\* The pairs that follow from a relation by transitivity: three rounds of
\* squaring cover every path through six mutexes.
Compose(R) ==
    R \cup {<<pq[1][1], pq[2][2]>> : pq \in {x \in R \X R : x[1][2] = x[2][1]}}
Closure(R) == Compose(Compose(Compose(R)))

\* Two threads that each wait for a mutex the other holds.
Waits(t) ==
    IF sync.pc[t] # <<>> /\ Head(sync.pc[t])[1] \in {"lock", "try_lock"}
    THEN Holder(Head(sync.pc[t])[2]) \ {t} ELSE {}

\* ------------------------------------------------------------------- claims
SeqsInOrder == dequeued \o [i \in 1..Len(command_queue) |-> command_queue[i].seq]

\* The Control-Change message the claims expect for a SendCC command.
MessageOf(cmd) == <<BitOr(StatusCC, BitAnd(cmd.channel, ChannelMask)),
                    cmd.cc_number, cmd.value>>

\* C1: when the loop has processed a dequeued SendCC command, the
\* Control-Change message for its (channel, cc_number, value) has been written
\* to every output connection open at that moment.
C1_SendCCApplied ==
    [][\A t \in Threads :
         (tpc[t] = "process" /\ tpc'[t] = "relock" /\ tcmd[t].type = "SendCC") =>
           \A k \in 1..Len(connections) :
             \E j \in DOMAIN wire' :
               wire'[j].conn = k /\ wire'[j].bytes = MessageOf(tcmd[t])]_vars

\* C2: commands leave the queue in the order they were appended: the commands
\* popped so far, followed by the commands still queued, are in the order of
\* their pushes, whichever producers they came from.
C2_FifoOrder ==
    \A i, j \in DOMAIN SeqsInOrder : i < j => SeqsInOrder[i] < SeqsInOrder[j]

C2_Witness ==
    /\ Len(dequeued) >= 2
    /\ command_queue # <<>>
    /\ \E t \in Threads : tpc[t] = "process"

\* C3: the loop thread never holds the command_queue lock while it processes a
\* command or sleeps, and every send_command call that waits for the lock gets
\* it, pushes and returns Ok.
C3_SendCommandReturns ==
    /\ [](queue_lock = "thread" =>
            \A t \in LiveThreads : tpc[t] \notin {"process", "sleep"})
    /\ \A p \in Producers : [](ppc[p] = "lock" => <>(ppc[p] = "Ok"))

C3_Witness ==
    \E p \in Producers : ppc[p] = "lock" /\ queue_lock = "thread"

\* C4: when the loop has exited after a shutdown request, every command that
\* was enqueued before the request has been dequeued: none is left in the queue.
C4_DrainedBeforeExit ==
    (opc = "join" /\ thread_handle # 0 /\ tpc[thread_handle] = "exited") =>
      command_queue = <<>>

\* C5: start() on an engine that holds a thread handle returns "Engine already
\* running", spawns no thread and changes no state of the engine; at most one
\* loop thread is alive at any time.
C5_SingleLoop ==
    /\ [](Cardinality(LiveThreads) <= 1)
    /\ [][thread_handle # 0 => Spawned' = Spawned]_vars
    /\ [][(thread_handle # 0 /\ ret'.op = "start" /\ ret' # ret) =>
            (ret'.result = "Engine already running" /\ UNCHANGED engineVars)]_vars

C5_Witness ==
    /\ ret.op = "start"
    /\ ret.result = "Engine already running"
    /\ LiveThreads # {}

\* C6: once shutdown is requested on a running engine, the loop exits and
\* shutdown() joins it and returns Ok, whatever the queue holds.
C6_ShutdownTerminates ==
    (opc = "join" /\ thread_handle # 0) ~>
      (opc = "idle" /\ thread_handle = 0 /\ LiveThreads = {}
         /\ ret.op = "shutdown" /\ ret.result = "Ok")

C6_Witness ==
    /\ opc = "join"
    /\ thread_handle # 0
    /\ tpc[thread_handle] = "process"
    /\ Len(command_queue) >= 2

\* C7: every message send_cc writes is three bytes: the status byte
\* 0xB0 | (channel & 0x0F), whose high nibble is 0xB, then cc, then value.
C7_StatusByte ==
    ret.op = "send_cc" =>
      \A i \in DOMAIN wire :
        /\ Len(wire[i].bytes) = 3
        /\ wire[i].bytes[1] = BitOr(StatusCC, BitAnd(ret.args[1], ChannelMask))
        /\ wire[i].bytes[1] \div 16 = 11
        /\ wire[i].bytes[2] = ret.args[2]
        /\ wire[i].bytes[3] = ret.args[3]

C7_Witness ==
    /\ ret.op = "send_cc"
    /\ ret.args[1] = U8Max
    /\ wire # <<>>

\* C8: one send_cc call attempts exactly one write on each open connection, in
\* order, whichever writes fail; it returns nothing and leaves the list of
\* connections as it was.
C8_FanOut ==
    ret.op = "send_cc" =>
      /\ ret.result = "()"
      /\ Len(wire) = Len(connections)
      /\ \A i \in DOMAIN wire : wire[i].conn = i /\ wire[i].port = connections[i]

C8_Witness ==
    /\ ret.op = "send_cc"
    /\ Len(wire) >= 2
    /\ ~wire[1].ok
    /\ wire[2].ok

\* C9: the controller-number byte and the value byte of every message written
\* lie in 0..127.
C9_DataBytesClamped ==
    ret.op = "send_cc" =>
      \A i \in DOMAIN wire : wire[i].bytes[2] <= 127 /\ wire[i].bytes[3] <= 127

\* C10: a failing add_output returns one of its three errors and leaves the
\* connections as they were; a successful one appends exactly one connection
\* after the existing ones.
C10_AddOutput ==
    [][(ret'.op = "add_output" /\ <<ret, connections>>' # <<ret, connections>>) =>
         IF ret'.result = "Ok"
         THEN \E d \in DeviceNames : connections' = Append(connections, d)
         ELSE /\ connections' = connections
              /\ ret'.result \in {"Failed to create MIDI output",
                                  "Could not find MIDI device",
                                  "Failed to connect to MIDI port"}]_vars

C10_Witness ==
    /\ ret.op = "add_output"
    /\ ret.result = "Failed to connect to MIDI port"
    /\ Len(connections) >= 1

\* Thread t finishes processing a command of the given type in this step.
Processes(t, type) ==
    tpc[t] = "process" /\ tpc'[t] = "relock" /\ tcmd[t].type = type

\* The entries of a transitions list for one (channel, cc_number).
ActiveFor(trs, channel, cc_number) ==
    {i \in DOMAIN trs : trs[i].channel = channel /\ trs[i].cc_number = cc_number}

\* The Control-Change message that sends a CCValue as it is.
MessageOfCC(cc) == <<BitOr(StatusCC, BitAnd(cc.channel, ChannelMask)),
                     cc.cc_number, cc.value>>

\* C11: when the loop has processed a Transition command with channel <= 15,
\* cc_number <= 127, start and end <= 127 and duration > 0, the engine runs a
\* transition for that (channel, cc_number) toward the command's end value:
\* the values it emits move from start_value to end_value, end on end_value,
\* and the transition is then removed. The first step of that is that the
\* transition is among the active transitions once the command is processed.
C11_TransitionRuns ==
    [][\A t \in Threads :
         (Processes(t, "Transition") /\ tcmd[t].duration_ms > 0
            /\ tcmd[t].channel <= 15 /\ tcmd[t].cc_number <= 127
            /\ tcmd[t].start_value <= 127 /\ tcmd[t].end_value <= 127) =>
           \E i \in ActiveFor(transitions', tcmd[t].channel, tcmd[t].cc_number) :
             /\ transitions'[i].start_value = tcmd[t].start_value
             /\ transitions'[i].end_value = tcmd[t].end_value]_vars

C13_ActivateSceneEffects ==
    [][\A t \in Threads :
         Processes(t, "ActivateScene") =>
           LET ccs == tcmd[t].scene.cc_values IN
             /\ \A k \in DOMAIN ccs :
                  IF ccs[k].transition
                  THEN \E i \in ActiveFor(transitions', ccs[k].channel, ccs[k].cc_number) :
                         transitions'[i].end_value = ccs[k].value
                  ELSE \A c \in 1..Len(connections) :
                         \E j \in DOMAIN wire' :
                           wire'[j].conn = c /\ wire'[j].bytes = MessageOfCC(ccs[k])
             /\ \A i \in DOMAIN transitions' :
                  (\E k \in DOMAIN ccs : ccs[k].channel = transitions'[i].channel
                                          /\ ccs[k].cc_number = transitions'[i].cc_number)
                  \/ (i \in DOMAIN transitions /\ transitions'[i] = transitions[i])]_vars

\* C14: processing MorphScenes{start_scene, end_scene} starts, for every key of
\* end_scene, a transition toward end_scene's value, from start_scene's value
\* when the key is in start_scene too and from the key's last live value (0
\* when unknown; the engine keeps no live values) otherwise; it starts nothing
\* and sends nothing for a key that is only in start_scene.
C14_MorphScenesEffects ==
    [][\A t \in Threads :
         Processes(t, "MorphScenes") =>
           LET from == tcmd[t].start_scene.cc_values
               to == tcmd[t].end_scene.cc_values
           IN /\ \A k \in DOMAIN to :
                   \E i \in ActiveFor(transitions', to[k].channel, to[k].cc_number) :
                     /\ transitions'[i].end_value = to[k].value
                     /\ transitions'[i].start_value =
                          (IF k \in DOMAIN from THEN from[k].value ELSE 0)
              /\ \A k \in DOMAIN from \ DOMAIN to :
                   /\ \A i \in ActiveFor(transitions', from[k].channel, from[k].cc_number) :
                        i \in DOMAIN transitions /\ transitions'[i] = transitions[i]
                   /\ wire' = wire]_vars

\* C15: send_command(StopTransitions) returns Ok whether or not a transition
\* is active; once the loop has processed it no transition is active and
\* nothing has been sent, and processing it when none is active changes
\* nothing of the engine.
C15_StopAllIdempotent ==
    /\ [][\A p \in Producers :
            (ppc[p] = "push" /\ pcmd[p].type = "StopTransitions" /\ ppc'[p] # "push") =>
              (ppc'[p] = "Ok" /\ command_queue' = Append(command_queue, pcmd[p]))]_vars
    /\ [][\A t \in Threads :
            Processes(t, "StopTransitions") =>
              /\ transitions' = <<>>
              /\ wire' = wire
              /\ transitions = <<>> =>
                   UNCHANGED <<transitions, connections, running, command_queue,
                               thread_handle>>]_vars

\* The loop is processing one StopTransitions while a second one, whose
\* send_command has returned Ok, waits in the queue behind it.
C15_Witness ==
    /\ ppc["ui"] = "Ok"
    /\ command_queue # <<>>
    /\ Head(command_queue).type = "StopTransitions"
    /\ \E t \in Threads : tpc[t] = "process" /\ tcmd[t].type = "StopTransitions"

\* The quantize_beats the claim expects for a trigger mode.
ExpectedQuantize(trigger_mode) ==
    CASE trigger_mode.mode = "Immediate" -> None
      [] trigger_mode.mode = "NextBeat" -> Some(1)
      [] trigger_mode.mode = "Beats" -> Some(trigger_mode.n)
      [] trigger_mode.mode = "NextBar" -> Some(4)

\* C16: every ActivateScene command that ProjectManager::activate_scene has
\* enqueued carries quantize_beats = None for Immediate, Some(1) for NextBeat,
\* Some(n) for Beats(n) and Some(4) for NextBar, and a successful call
\* enqueues exactly one such command, for the scene it was given.
C16_QuantizeBeats ==
    /\ [](\A i \in DOMAIN command_queue :
            command_queue[i].type = "ActivateScene" =>
              command_queue[i].quantize_beats =
                ExpectedQuantize(command_queue[i].scene.trigger_mode))
    /\ [][(ret'.op = "activate_scene" /\ ret'.result = "Ok" /\ nsends' # nsends) =>
            /\ Len(command_queue') = Len(command_queue) + 1
            /\ command_queue'[Len(command_queue')].type = "ActivateScene"
            /\ command_queue'[Len(command_queue')].scene =
                 active_project[1].scenes[ret'.args[1]]]_vars

\* A scene with trigger mode Beats(255) has been activated.
C16_Witness ==
    /\ ret.op = "activate_scene"
    /\ ret.result = "Ok"
    /\ command_queue # <<>>
    /\ command_queue[Len(command_queue)].scene.trigger_mode =
         [mode |-> "Beats", n |-> U8Max]
    /\ command_queue[Len(command_queue)].quantize_beats = Some(U8Max)

\* C17: when a CCValue with transition = true holds both transition_beats and
\* transition_ms, get_transition_duration_ms returns the duration of the
\* beats; transition_ms is returned only when transition_beats is None.
C17_BeatsPreferred ==
    (ret.op = "get_transition_duration_ms" /\ cc_value.transition
       /\ cc_value.transition_beats # None) =>
      ret.result = Some(beats_to_ms(cc_value.transition_beats[1], ret.args[1]))

\* C18: get_transition_duration_ms(tempo) returns None when transition is
\* false or when both durations are None, m when only transition_ms = Some(m),
\* and beats * 60000 / tempo truncated to an integer when only
\* transition_beats = Some(beats) (beats are quarter beats here, so
\* beats * 15000 / tempo).
C18_DurationRules ==
    ret.op = "get_transition_duration_ms" =>
      LET beats == cc_value.transition_beats
          ms == cc_value.transition_ms
      IN /\ ~cc_value.transition => ret.result = None
         /\ (beats = None /\ ms = None) => ret.result = None
         /\ (cc_value.transition /\ beats = None /\ ms # None) => ret.result = ms
         /\ (cc_value.transition /\ beats # None /\ ms = None) =>
              ret.result = Some((beats[1] * 15000) \div ret.args[1])

\* C19: after a with_transition_beats or with_transition_ms call on any
\* CCValue, transition is true and exactly one of transition_beats and
\* transition_ms is Some: the one of the call, holding the call's argument.
C19_OneDuration ==
    /\ ret.op = "with_transition_beats" =>
         /\ cc_value.transition
         /\ cc_value.transition_beats = Some(ret.args[1])
         /\ cc_value.transition_ms = None
    /\ ret.op = "with_transition_ms" =>
         /\ cc_value.transition
         /\ cc_value.transition_ms = Some(ret.args[1])
         /\ cc_value.transition_beats = None

\* with_transition_ms has been called on a value the editor had changed.
C19_Witness ==
    /\ ret.op = "with_transition_ms"
    /\ cc_value.value # NewCCValue.value
    /\ cc_value.transition_ms = Some(1000)

\* C20: apply maps 0 to 0 and 1 to 1 for every curve, and 0.5 to 0.5 for
\* Linear, 0.25 for Exponential, 0.7071 for Logarithmic and 0.5 for SCurve.
C20_CurveValues ==
    ret.op = "apply" =>
      LET curve == ret.args[1]
          position == ret.args[2]
      IN /\ position = 0 => ret.result = 0
         /\ position = One => ret.result = One
         /\ position = One \div 2 =>
              ret.result = CASE curve = "Linear" -> 5000
                             [] curve = "Exponential" -> 2500
                             [] curve = "Logarithmic" -> 7071
                             [] curve = "SCurve" -> 5000

C20_Witness ==
    /\ ret.op = "apply"
    /\ ret.args = <<"Logarithmic", One \div 2>>
    /\ ret.result = 7071

\* C21: set_tempo(bpm) stores bpm as the local tempo when no peer is connected
\* and leaves the local tempo as it was when one or more peers are connected;
\* get_tempo on a disabled Link returns the local tempo.
C21_SetTempoLocal ==
    /\ ret.op = "set_tempo" =>
         link.tempo = IF ret.before.num_peers = 0 THEN ret.args[1]
                      ELSE ret.before.tempo
    /\ (ret.op = "get_tempo" /\ ~ret.before.enabled) =>
         ret.result = ret.before.tempo

\* C24: get_phase returns a value in [0, 1) - in sixteenths, in 0..15 -
\* whatever beat position was stored, negative ones included.
C24_PhaseRange ==
    ret.op = "get_phase" => (0 <= ret.result /\ ret.result < Bar)

\* C22: in every poll that sees a beat position, the beat callback is invoked
\* once for each integer beat boundary crossed since the position seen before
\* (since the start of the loop for the first one), and the bar callback once
\* for each bar boundary crossed: never more, and not less when the poll comes
\* late.
C22_OncePerBoundary ==
    [][\A t \in Threads :
         (timing.threads[t].pc = "poll" /\ timing'.threads[t].pc = "while"
            /\ timing.threads[t].link.num_peers > 0
            /\ link.beat_callback # None /\ link.bar_callback # None) =>
           /\ timing'.fired.beat =
                floor_as_u32(timing.threads[t].link.beat) - timing.threads[t].last_beat
           /\ timing'.fired.bar =
                floor_as_u32(timing.threads[t].link.beat) \div 4
                  - timing.threads[t].last_bar]_vars

\* C23: once start() has been called, whenever Link is enabled (and no start
\* or stop call is under way) a timing thread is in its loop.
C23_LoopWhileEnabled ==
    (SpawnedTiming # {} /\ timing.caller = "idle" /\ link.enabled) =>
      LiveTiming # {}

\* The text "channel:cc_number" of the sample pairs, as character codes.
KeyText(channel, cc_number) ==
    CASE <<channel, cc_number>> = <<1, 23>> -> <<49, 58, 50, 51>>
      [] <<channel, cc_number>> = <<12, 3>> -> <<49, 50, 58, 51>>
      [] <<channel, cc_number>> = <<0, 7>> -> <<48, 58, 55>>

\* C26: after any sequence of add_cc, add_cc_values and remove_cc every entry
\* of a scene is stored under the key "channel:cc_number" of its own value, so
\* the scene holds at most one value per (channel, cc_number); add_cc makes
\* its value the one get_cc returns for its pair and leaves the other pairs
\* alone; after remove_cc get_cc returns None for the pair and the other
\* pairs are as before.
C26_OneValuePerKey ==
    /\ \A k \in DOMAIN a_scene.cc_values :
         k = KeyText(a_scene.cc_values[k].channel, a_scene.cc_values[k].cc_number)
    /\ \A k1, k2 \in DOMAIN a_scene.cc_values :
         (/\ a_scene.cc_values[k1].channel = a_scene.cc_values[k2].channel
          /\ a_scene.cc_values[k1].cc_number = a_scene.cc_values[k2].cc_number)
           => k1 = k2
    /\ ret.op = "add_cc" =>
         LET cc == ret.args[1] IN
           /\ get_cc(a_scene, cc.channel, cc.cc_number) = Some(cc)
           /\ \A p \in ScenePairs \ {<<cc.channel, cc.cc_number>>} :
                get_cc(a_scene, p[1], p[2]) = get_cc(ret.before, p[1], p[2])
    /\ ret.op = "remove_cc" =>
         /\ get_cc(a_scene, ret.args[1], ret.args[2]) = None
         /\ \A p \in ScenePairs \ {ret.args} :
              get_cc(a_scene, p[1], p[2]) = get_cc(ret.before, p[1], p[2])

\* remove_cc took channel 1 controller 23 out of a scene that also held
\* channel 12 controller 3, which is still there.
C26_Witness ==
    /\ ret.op = "remove_cc"
    /\ ret.args = <<1, 23>>
    /\ ret.result = Some(CC(1, 23, 20))
    /\ get_cc(a_scene, 12, 3) = Some(CC(12, 3, 30))

\* C27: assign_to_grid(scene_id, position) returns an error and leaves the
\* project as it was when position >= 64 or scene_id is not a scene of the
\* project; otherwise it returns Ok and get_scene_at_grid(position) is then
\* that scene.
C27_AssignToGrid ==
    ret.op = "assign_to_grid" =>
      LET scene_id == ret.args[1]
          position == ret.args[2]
      IN IF position >= 64 \/ scene_id \notin DOMAIN ret.before.scenes
         THEN ret.result # "Ok" /\ a_project = ret.before
         ELSE /\ ret.result = "Ok"
              /\ get_scene_at_grid(a_project, position) # None
              /\ get_scene_at_grid(a_project, position)[1].id = scene_id

\* scene-2 was assigned to position 5, which scene-1 held before.
C27_Witness ==
    /\ ret.op = "assign_to_grid"
    /\ ret.args = <<"scene-2", 5>>
    /\ ret.result = "Ok"
    /\ get_scene_at_grid(ret.before, 5) # None
    /\ get_scene_at_grid(ret.before, 5)[1].id = "scene-1"
    /\ get_scene_at_grid(ret.before, 5)[1].grid_position = Some(5)

\* C29: the input handler turns a message of status 0x90 into PadReleased(note)
\* when the velocity is 0 and into PadPressed(note, velocity) otherwise, one
\* of status 0xB0 into ButtonReleased(note) when the value is 0 and into
\* ButtonPressed(note) otherwise; a message shorter than 3 bytes or of any
\* other status gives no event and no callback is invoked.
C29_InputEvents ==
    controller.received > 0 =>
      LET m == controller.last.message
          e == controller.last.event
      IN IF Len(m) >= 3 /\ m[1] \in {144, 176}
         THEN /\ e # None
              /\ e[1].id = m[2]
              /\ e[1].type = CASE m[1] = 144 /\ m[3] = 0 -> "PadReleased"
                               [] m[1] = 144 /\ m[3] # 0 -> "PadPressed"
                               [] m[1] = 176 /\ m[3] = 0 -> "ButtonReleased"
                               [] m[1] = 176 /\ m[3] # 0 -> "ButtonPressed"
              /\ e[1].type = "PadPressed" => e[1].velocity = m[3]
         ELSE e = None /\ controller.last.called = None

\* A Note On of velocity 0 reached a handler built with a callback, which was
\* called with PadReleased(11).
C29_Witness ==
    /\ controller.received > 0
    /\ controller.last.message = <<144, 11, 0>>
    /\ controller.last.event = Some([type |-> "PadReleased", id |-> 11])
    /\ controller.last.called = Some("record")

\* C25: once connect_controller has stored a connected controller, every pad
\* press the hardware sends whose pad maps to a grid position with an
\* assigned scene enqueues exactly one ActivateScene command for that scene.
C25_PadPressActivates ==
    [][(/\ controller'.received = controller.received + 1
        /\ controller.dev # None
        /\ controller.dev[1].event_callback = Some("pad_pressed")
        /\ controller'.last.event # None
        /\ controller'.last.event[1].type = "PadPressed"
        /\ map_to_app_grid_id(controller'.last.event[1].id) # None
        /\ active_project # None
        /\ get_scene_at_grid(active_project[1],
             map_to_app_grid_id(controller'.last.event[1].id)[1]) # None)
       => /\ Len(command_queue') = Len(command_queue) + 1
          /\ command_queue'[Len(command_queue')].type = "ActivateScene"
          /\ command_queue'[Len(command_queue')].scene.id =
               get_scene_at_grid(active_project[1],
                 map_to_app_grid_id(controller'.last.event[1].id)[1])[1].id]_vars

C30_StartedLoopRuns ==
    (thread_handle # 0 /\ opc = "idle") => tpc[thread_handle] # "exited"

\* The seq of the commands a producer has handed to send_command and not yet
\* pushed.
InFlight == {pcmd[p].seq : p \in {q \in Producers : ppc[q] \in {"lock", "push"}}}

\* C31: no command is lost or duplicated: every command passed to
\* send_command is, exactly once, either waiting for its push, in the queue,
\* or among the commands the loop has dequeued.
C31_NoLossNoDuplicate ==
    /\ {SeqsInOrder[i] : i \in DOMAIN SeqsInOrder} \cup InFlight = 1..nsends
    /\ Len(SeqsInOrder) + Cardinality(InFlight) = nsends

\* A producer pushes between two pops of the loop: one command was dequeued
\* and is being processed with the lock released, one is queued, and a
\* producer holds the lock for its push.
C31_Witness ==
    /\ \E t \in Threads : tpc[t] \in {"process", "relock"}
    /\ Len(dequeued) >= 1
    /\ command_queue # <<>>
    /\ \E p \in Producers : ppc[p] = "push"

\* C39 as stated: map_to_app_grid_id(map_grid_id(g)) = Some(g) for every g in
\* 0..63, and map_to_app_grid_id(c) is Some exactly when the tens digit and
\* the units digit of c are both in 1..8, and then map_grid_id gives c back.
C39_RoundTripByDigits ==
    /\ (ret.op = "map_grid_id" /\ ret.args[1] \in 0..63) =>
         map_to_app_grid_id(ret.result) = Some(ret.args[1])
    /\ ret.op = "map_to_app_grid_id" =>
         LET c == ret.args[1] IN
           /\ ret.result # None <=>
                ((c \div 10) % 10 \in 1..8 /\ c % 10 \in 1..8)
           /\ ret.result # None => map_grid_id(ret.result[1]) = c

\* C39, amended: the same round trip, and map_to_app_grid_id(c) is Some
\* exactly when c is below 100 with tens digit and units digit in 1..8, that
\* is when c / 10 and c % 10 are both in 1..8; ids from 100 on give None.
C39_RoundTrip ==
    /\ (ret.op = "map_grid_id" /\ ret.args[1] \in 0..63) =>
         map_to_app_grid_id(ret.result) = Some(ret.args[1])
    /\ ret.op = "map_to_app_grid_id" =>
         LET c == ret.args[1] IN
           /\ ret.result # None <=> (c \div 10 \in 1..8 /\ c % 10 \in 1..8)
           /\ ret.result # None => map_grid_id(ret.result[1]) = c

\* The last pad: controller id 88 is grid id 63.
C39_Witness ==
    /\ ret.op = "map_to_app_grid_id"
    /\ ret.args = <<88>>
    /\ ret.result = Some(63)

\* C35: grid_assignments and the scenes' grid_position agree:
\* grid_assignments[p] = s exactly when scene s has grid_position = Some(p).
C35_GridAgreement ==
    \A p \in 0..63, s \in DOMAIN a_project.scenes :
      (p \in DOMAIN a_project.grid_assignments /\ a_project.grid_assignments[p] = s)
        <=> a_project.scenes[s].grid_position = Some(p)

\* C36: after any sequence of add_scene, assign_to_grid and remove_scene every
\* key of grid_assignments is below 64 and every value is the id of a scene
\* in scenes; after remove_scene(id) no position maps to id.
C36_AssignmentsValid ==
    /\ \A p \in DOMAIN a_project.grid_assignments :
         /\ p < 64
         /\ a_project.grid_assignments[p] \in DOMAIN a_project.scenes
    /\ ret.op = "remove_scene" =>
         \A p \in DOMAIN a_project.grid_assignments :
           a_project.grid_assignments[p] # ret.args[1]

\* remove_scene took away scene-1, which held position 5, while scene-2 keeps
\* position 63.
C36_Witness ==
    /\ ret.op = "remove_scene"
    /\ ret.args = <<"scene-1">>
    /\ 5 \in DOMAIN ret.before.grid_assignments
    /\ ret.before.grid_assignments[5] = "scene-1"
    /\ DOMAIN a_project.grid_assignments = {63}
    /\ a_project.grid_assignments[63] = "scene-2"

C32_CallsReturn ==
    ret.op \in {"load_project", "assign_scene_to_grid", "connect_controller"} =>
      /\ ret.result # "never returns"
      /\ locks = [active_project |-> "free", controller |-> "free"]

\* C34: whenever active_scene_id is Some(id), there is an active project and
\* it has a scene with that id, so get_active_scene never returns
\* InvalidSceneId.
C34_ActiveSceneInProject ==
    /\ active_scene_id # None =>
         /\ active_project # None
         /\ active_scene_id[1] \in DOMAIN active_project[1].scenes
    /\ ret.op = "get_active_scene" => ret.result # "InvalidSceneId"

\* C38: when save_generated_scene returns success with a scene id, the
\* manager's active project has a scene with that id and so has the project
\* that was written to storage.
C38_GeneratedSceneSaved ==
    (ret.op = "save_generated_scene" /\ ret.result = "success") =>
      /\ active_project # None
      /\ ret.args[1] \in DOMAIN active_project[1].scenes
      /\ ret.stored # None
      /\ ret.args[1] \in DOMAIN ret.stored[1].scenes

\* C33: threads running at the same time cannot deadlock one another: no two
\* threads wait for a mutex the other holds, and the order in which the
\* mutexes are taken while another is held has no cycle, so it is one global
\* order.
C33_OneGlobalOrder ==
    /\ \A t \in SyncThreads : \A u \in Waits(t) : t \notin Waits(u)
    /\ \A m \in Mutexes : <<m, m>> \notin Closure(sync.order)

====
